---------------------------- MODULE Spec2Model ----------------------------
(***************************************************************************)
(* Model of the bongbosse Stryktipset engine: odds normalisation, Kelly   *)
(* value analysis, coverage allocation, combinatorial expansion and the   *)
(* Monte Carlo evaluator, together with the HTTP handlers in front of     *)
(* them.  JavaScript numbers are modelled as exact rationals [n, d]; a    *)
(* denominator of 0 stands for the non-finite values (NaN, +-Infinity).   *)
(* Math.random() returns binary fractions: a draw from RandSamples or     *)
(* RowSamples, or the next value of a tape.                               *)
(***************************************************************************)
EXTENDS Integers, Sequences, FiniteSets, TLC

VARIABLES
  oreq, ores,                                   \* odds normaliser: input triple, output triple
  kreq, kres,                                   \* Kelly analysis: input, output
  spc, sreq, trial, tallies, sres,              \* simulateRow: position, input, loop state, buckets, output
  areq, ares,                                   \* POST /api/simulate: request, response
  gpc, greq, order, swapsLeft, plan, rows, gresp, \* POST /api/generate-system and generateSystem
  randoms, calls,                               \* Math.random() in generateSystem: values, calls made
  adj,                                          \* adjustMatchProbabilities: input and output
  rowsApi,                                      \* POST /api/generate-rows: request, rows, response
  calc,                                         \* StryktipsetSystemCalculator: call, loop state, result
  pay,                                          \* payout estimators: correct count and estimates
  sel,                                          \* coverage selection for one match: input and picks
  boot,                                         \* simulateWithConfidenceIntervals: call, replicates, interval
  hist                                          \* SystemHistoryManager: clock, stored systems, last call

oddsVars  == <<oreq, ores>>
kellyVars == <<kreq, kres>>
simVars   == <<spc, sreq, trial, tallies, sres>>
apiVars   == <<areq, ares>>
genVars   == <<gpc, greq, order, swapsLeft, plan, rows, gresp, randoms, calls>>
auxVars   == <<adj, rowsApi, calc, pay, sel, boot, hist>>
vars      == <<oreq, ores, kreq, kres, spc, sreq, trial, tallies, sres,
               areq, ares, gpc, greq, order, swapsLeft, plan, rows, gresp, randoms, calls,
               adj, rowsApi, calc, pay, sel, boot, hist>>

\* an absent object (undefined / not yet produced)
None == [absent |-> TRUE]

\* an absent string
NoString == "none"

-----------------------------------------------------------------------------
(* JavaScript number arithmetic, exact.                                     *)

Abs(x) == IF x < 0 THEN -x ELSE x

Sign(x) == IF x < 0 THEN -1 ELSE IF x > 0 THEN 1 ELSE 0

RECURSIVE GCD(_, _)
GCD(a, b) == IF b = 0 THEN a ELSE GCD(b, a % b)

\* the number n/d in lowest terms; d = 0 gives NaN (0/0) or +-Infinity
Rat(n, d) ==
  IF d = 0 THEN [n |-> Sign(n), d |-> 0]
  ELSE LET g == GCD(Abs(n), Abs(d))
           s == Sign(d)
       IN  [n |-> (s * n) \div g, d |-> (s * d) \div g]

Int2Rat(i) == [n |-> i, d |-> 1]

NaN == [n |-> 0, d |-> 0]

IsFinite(a) == a.d # 0

RAdd(a, b) == Rat(a.n * b.d + b.n * a.d, a.d * b.d)

RSub(a, b) == Rat(a.n * b.d - b.n * a.d, a.d * b.d)

RMul(a, b) == Rat(a.n * b.n, a.d * b.d)

\* a / b as IEEE division: x/0 is +-Infinity, 0/0 is NaN
RDiv(a, b) ==
  IF b.n = 0 THEN [n |-> Sign(a.n), d |-> 0] ELSE Rat(a.n * b.d, a.d * b.n)

\* a < b, a <= b on finite numbers; every comparison with NaN is false
RLt(a, b) == IsFinite(a) /\ IsFinite(b) /\ a.n * b.d < b.n * a.d

RLe(a, b) == IsFinite(a) /\ IsFinite(b) /\ a.n * b.d <= b.n * a.d

RMin(a, b) == IF RLt(b, a) THEN b ELSE a

RMax(a, b) == IF RLt(a, b) THEN b ELSE a

RAbs(a) == [n |-> Abs(a.n), d |-> a.d]

\* Math.floor of a finite number
Floor(a) == a.n \div a.d

Zero == Int2Rat(0)

One == Int2Rat(1)

Triple(h, d, a) == [home |-> h, draw |-> d, away |-> a]

TripleSum(t) == RAdd(RAdd(t.home, t.draw), t.away)

Outcomes == <<"1", "X", "2">>

OutcomeSet == {"1", "X", "2"}

\* the field of a {home, draw, away} object that outcome o reads
Field(t, o) == IF o = "1" THEN t.home ELSE IF o = "X" THEN t.draw ELSE t.away

-----------------------------------------------------------------------------
(* OddsNormalizer (odds.ts)                                                 *)

\* odds the normaliser is applied to: bookmaker odds and malformed values
OddsValues == {Rat(-2, 1), Rat(1, 2), Rat(1, 1), Rat(3, 2), Rat(2, 1), Rat(3, 1), Rat(4, 1)}

OddsTriples == {Triple(h, d, a) : h \in OddsValues, d \in OddsValues, a \in OddsValues}

impliedProbs(odds) ==
  Triple(RDiv(One, odds.home), RDiv(One, odds.draw), RDiv(One, odds.away))

\* the normaliser with the division by the total left out
oddsToNormalizedProbabilities_unnormalized(odds) == impliedProbs(odds)

\* t / total, field by field
scaleBy(t, total) == Triple(RDiv(t.home, total), RDiv(t.draw, total), RDiv(t.away, total))

oddsToNormalizedProbabilities(odds) == scaleBy(impliedProbs(odds), TripleSum(impliedProbs(odds)))

Normalize ==
  /\ oreq # None /\ ores = None
  /\ ores' = oddsToNormalizedProbabilities(oreq)
  /\ UNCHANGED oreq

NextOdds == Normalize /\ UNCHANGED <<kellyVars, simVars, apiVars, genVars, auxVars>>


-----------------------------------------------------------------------------
(* ValueAnalyzer (kellycriterion.ts)                                        *)

Quarter == Rat(1, 4)

\* the stake with the 25% cap left out
calculateOptimalStake_uncapped(trueProbability, bookmakerOdds, bankroll) ==
  IF RLe(RSub(RMul(trueProbability, bookmakerOdds), One), Zero) THEN Zero
  ELSE RMul(RDiv(RSub(RMul(trueProbability, bookmakerOdds), One),
                 RSub(bookmakerOdds, One)), bankroll)

calculateValue(trueProbability, bookmakerOdds) ==
  RSub(RMul(trueProbability, bookmakerOdds), One)

\* edge is trueProbability * bookmakerOdds - 1
calculateOptimalStake(trueProbability, bookmakerOdds, bankroll) ==
  IF RLe(RSub(RMul(trueProbability, bookmakerOdds), One), Zero) THEN Zero
  ELSE RMin(RMul(RDiv(RSub(RMul(trueProbability, bookmakerOdds), One),
                      RSub(bookmakerOdds, One)), bankroll),
            RMul(Quarter, bankroll))

\* 70% normalised odds, 30% public percentage (when the match carries svenskaFolket)
blendPublic(n, sf) ==
  IF sf = None THEN n
  ELSE Triple(RAdd(RMul(n.home, Rat(7, 10)), RMul(Rat(sf.home, 100), Rat(3, 10))),
              RAdd(RMul(n.draw, Rat(7, 10)), RMul(Rat(sf.draw, 100), Rat(3, 10))),
              RAdd(RMul(n.away, Rat(7, 10)), RMul(Rat(sf.away, 100), Rat(3, 10))))

\* +0.05 on home, -0.025 on draw and on away
applyHomeAdvantage(n) ==
  Triple(RAdd(n.home, Rat(5, 100)), RSub(n.draw, Rat(25, 1000)), RSub(n.away, Rat(25, 1000)))

calculateTrueProbabilities(match) ==
  LET blended == applyHomeAdvantage(
                   blendPublic(scaleBy(impliedProbs(match.odds), TripleSum(impliedProbs(match.odds))),
                               match.svenskaFolket))
  IN  scaleBy(blended, TripleSum(blended))

calculateConfidence(probability, odds) ==
  RMin(RAdd(IF RLt(Rat(6, 10), probability) \/ RLt(probability, Rat(2, 10))
            THEN Rat(7, 10) ELSE Rat(5, 10),
            RMin(RMul(RAbs(RSub(probability, RDiv(One, odds))), Int2Rat(2)), Rat(3, 10))),
       One)

\* the test with the -0.05 tolerance of the recommendation step used instead
isValueBet_tolerant(value) == RLt(Rat(-5, 100), value)

\* the test that decides whether an outcome becomes a ValueBet
isValueBet(value) == RLt(Zero, value)

\* what the inner forEach computes for an outcome with probability prob and odds odds
betRecord(i, o, prob, odds, bankroll) ==
  [matchId |-> i, outcome |-> o, value |-> calculateValue(prob, odds),
   kellyFraction |-> IF RLt(Zero, calculateValue(prob, odds))
                     THEN RDiv(calculateOptimalStake(prob, odds, bankroll), bankroll)
                     ELSE Zero,
   confidence |-> calculateConfidence(prob, odds),
   recommendedStake |-> calculateOptimalStake(prob, odds, bankroll)]

evaluateOutcome(match, i, o, bankroll) ==
  betRecord(i, o, Field(calculateTrueProbabilities(match), o), Field(match.odds, o), bankroll)

\* every outcome of every match, in the order the two forEach loops visit them
RECURSIVE evaluatedFrom(_, _, _)
evaluatedFrom(matches, bankroll, k) ==
  IF k > 3 * Len(matches) THEN <<>>
  ELSE <<evaluateOutcome(matches[((k - 1) \div 3) + 1], ((k - 1) \div 3) + 1,
                         Outcomes[((k - 1) % 3) + 1], bankroll)>>
       \o evaluatedFrom(matches, bankroll, k + 1)

RECURSIVE pushedBets(_)
pushedBets(evaluated) ==
  IF evaluated = <<>> THEN <<>>
  ELSE (IF isValueBet(Head(evaluated).value) THEN <<Head(evaluated)>> ELSE <<>>)
       \o pushedBets(Tail(evaluated))

\* Array.prototype.sort((a, b) => b.value - a.value): stable, descending by value
RECURSIVE insertByValue(_, _)
insertByValue(sorted, bet) ==
  IF sorted = <<>> THEN <<bet>>
  ELSE IF RLt(Head(sorted).value, bet.value) THEN <<bet>> \o sorted
       ELSE <<Head(sorted)>> \o insertByValue(Tail(sorted), bet)

RECURSIVE sortByValue(_)
sortByValue(bets) ==
  IF bets = <<>> THEN <<>>
  ELSE insertByValue(sortByValue(SubSeq(bets, 1, Len(bets) - 1)), bets[Len(bets)])

RECURSIVE sumValues(_)
sumValues(bets) ==
  IF bets = <<>> THEN Zero ELSE RAdd(Head(bets).value, sumValues(Tail(bets)))

\* if (value > bestValue) { bestValue = value; bestOutcome = outcome }
betterOf(best, e) ==
  IF RLt(best.value, e.value) THEN [value |-> e.value, outcome |-> e.outcome] ELSE best

\* bestValue / bestOutcome of match i after its three outcomes
bestOf(evaluated, i) ==
  betterOf(betterOf(betterOf([value |-> Int2Rat(-1), outcome |-> "1"],
                             evaluated[3 * i - 2]), evaluated[3 * i - 1]), evaluated[3 * i])

\* recommendedOutcomes[matchId], kept when bestValue > -0.05
recommendedOf(best) == IF RLt(Rat(-5, 100), best.value) THEN best.outcome ELSE NoString

kellyResult(evaluated, n) ==
  [evaluated |-> evaluated,
   valueBets |-> sortByValue(pushedBets(evaluated)),
   totalValue |-> sumValues(pushedBets(evaluated)),
   recommendedOutcomes |-> [i \in 1..n |-> recommendedOf(bestOf(evaluated, i))]]

findValueBets(matches, bankroll) ==
  kellyResult(evaluatedFrom(matches, bankroll, 1), Len(matches))

\* matches handed to the analyser: odds, and the public betting percentages if known
KellyMatch(h, d, a, sf) == [odds |-> Triple(h, d, a), svenskaFolket |-> sf]

KellyPool ==
  << KellyMatch(Rat(3, 2), Rat(18, 5), Rat(6, 1), None),
     KellyMatch(Rat(3, 2), Rat(18, 5), Rat(6, 1), [home |-> 90, draw |-> 5, away |-> 5]),
     KellyMatch(Rat(2, 1), Rat(3, 1), Rat(6, 1), None),
     KellyMatch(Rat(2, 1), Rat(3, 1), Rat(4, 1), [home |-> 20, draw |-> 30, away |-> 50]),
     KellyMatch(Rat(5, 2), Rat(3, 1), Rat(3, 1), [home |-> 10, draw |-> 60, away |-> 30]),
     KellyMatch(Rat(25, 24), Rat(50, 1), Rat(50, 1), None),
     KellyMatch(Rat(3, 2), Rat(18, 5), Rat(6, 1), [home |-> 95, draw |-> 3, away |-> 2]) >>

KellySlates ==
  {<<KellyPool[i]>> : i \in 1..Len(KellyPool)}
    \cup {<<KellyPool[i], KellyPool[j]>> : i \in 1..Len(KellyPool), j \in 1..Len(KellyPool)}

Bankrolls == {Int2Rat(0), Int2Rat(100), Int2Rat(1000)}

StakeProbabilities == {Rat(0, 1), Rat(1, 4), Rat(1, 2), Rat(3, 5), Rat(1, 1)}

StakeOdds == {Rat(101, 100), Rat(3, 2), Rat(2, 1), Rat(4, 1), Rat(6, 1)}

KellyRequests ==
  [kind : {"stake"}, probability : StakeProbabilities, odds : StakeOdds, bankroll : Bankrolls]
    \cup [kind : {"find"}, matches : KellySlates, bankroll : Bankrolls]

CalcStake ==
  /\ kreq # None /\ kres = None /\ kreq.kind = "stake"
  /\ kres' = [stake |-> calculateOptimalStake(kreq.probability, kreq.odds, kreq.bankroll)]
  /\ UNCHANGED kreq

FindBets ==
  /\ kreq # None /\ kres = None /\ kreq.kind = "find"
  /\ kres' = findValueBets(kreq.matches, kreq.bankroll)
  /\ UNCHANGED kreq

NextKelly ==
  \/ CalcStake /\ UNCHANGED <<oddsVars, simVars, apiVars, genVars, auxVars>>
  \/ FindBets /\ UNCHANGED <<oddsVars, simVars, apiVars, genVars, auxVars>>

-----------------------------------------------------------------------------
(* SimulationEngine (second half of odds.ts)                                *)

\* values Math.random() is taken to return: odd eighths.  A double holds them
\* exactly and none of them equals a threshold the code compares a draw with on the
\* inputs below, so the comparison made on doubles and the comparison made on exact
\* fractions give the same answer.
RandSamples == {Rat(1, 8), Rat(3, 8), Rat(5, 8), Rat(7, 8)}

\* a Stryktipset slate has 13 matches
NumMatches == 13

\* largest iterations argument simulateRow is called with directly
MaxIterations == 2

selectWeightedRandomOutcome(probabilities, random) ==
  IF RLt(random, probabilities.home) THEN "1"
  ELSE IF RLt(random, RAdd(probabilities.home, probabilities.draw)) THEN "X"
  ELSE "2"

\* the switch with its break statements missing: a case falls through to the next
countExact_fallthrough(results, correctCount) ==
  [results EXCEPT
     !.exactly10 = @ + (IF correctCount = 10 THEN 1 ELSE 0),
     !.exactly11 = @ + (IF correctCount \in {10, 11} THEN 1 ELSE 0),
     !.exactly12 = @ + (IF correctCount \in {10, 11, 12} THEN 1 ELSE 0),
     !.exactly13 = @ + (IF correctCount \in {10, 11, 12, 13} THEN 1 ELSE 0)]

\* switch (correctCount) { case 10: results.exactly10++; break; ... }
countExact(results, correctCount) ==
  [results EXCEPT
     !.exactly10 = @ + (IF correctCount = 10 THEN 1 ELSE 0),
     !.exactly11 = @ + (IF correctCount = 11 THEN 1 ELSE 0),
     !.exactly12 = @ + (IF correctCount = 12 THEN 1 ELSE 0),
     !.exactly13 = @ + (IF correctCount = 13 THEN 1 ELSE 0)]

\* if (correctCount >= k) results.atLeastk++
countAtLeast(results, correctCount) ==
  [results EXCEPT
     !.atLeast10 = @ + (IF correctCount >= 10 THEN 1 ELSE 0),
     !.atLeast11 = @ + (IF correctCount >= 11 THEN 1 ELSE 0),
     !.atLeast12 = @ + (IF correctCount >= 12 THEN 1 ELSE 0),
     !.atLeast13 = @ + (IF correctCount >= 13 THEN 1 ELSE 0)]

ZeroResults ==
  [exactly10 |-> 0, exactly11 |-> 0, exactly12 |-> 0, exactly13 |-> 0,
   atLeast10 |-> 0, atLeast11 |-> 0, atLeast12 |-> 0, atLeast13 |-> 0]

\* counts to probabilities: each tally / iterations
toProbabilities(results, iterations) ==
  [k \in DOMAIN results |-> RDiv(Int2Rat(results[k]), Int2Rat(iterations))]

\* the payout table applied to the atLeast buckets instead of the exactly buckets
calculateExpectedPayout_atLeast(probabilities) ==
  RAdd(RAdd(RAdd(RMul(probabilities.atLeast10, Int2Rat(50)),
                 RMul(probabilities.atLeast11, Int2Rat(500))),
            RMul(probabilities.atLeast12, Int2Rat(5000))),
       RMul(probabilities.atLeast13, Int2Rat(50000)))

calculateExpectedPayout(probabilities) ==
  RAdd(RAdd(RAdd(RMul(probabilities.exactly10, Int2Rat(50)),
                 RMul(probabilities.exactly11, Int2Rat(500))),
            RMul(probabilities.exactly12, Int2Rat(5000))),
       RMul(probabilities.exactly13, Int2Rat(50000)))

Pct(h, d, a) == Triple(Rat(h, 100), Rat(d, 100), Rat(a, 100))

\* the probability models and rows the simulation is run on
\* (the third slate is one the mock generator can produce: its triples sum to 0.8)
SimSlates ==
  { [i \in 1..NumMatches |-> Pct(45, 30, 25)],
    [i \in 1..NumMatches |-> IF i % 2 = 1 THEN Pct(60, 25, 15) ELSE Pct(30, 30, 40)],
    [i \in 1..NumMatches |-> Pct(30, 30, 20)] }

SimRows ==
  { [i \in 1..NumMatches |-> "1"],
    [i \in 1..NumMatches |-> Outcomes[(i % 3) + 1]] }

SimRequests == [outcomes : SimRows, matches : SimSlates, iterations : 0..MaxIterations]

\* entry of simulateRow: zeroed buckets, totalCorrect = 0, i = 0
SimulateRowEnter ==
  /\ spc = "call"
  /\ tallies' = ZeroResults
  /\ trial' = [i |-> 0, j |-> 0, correctCount |-> 0, totalCorrect |-> 0,
               random |-> Zero, actualOutcome |-> NoString]
  /\ spc' = IF 0 < sreq.iterations THEN "matchday" ELSE "aggregate"
  /\ UNCHANGED <<sreq, sres>>

\* one pass of the loop of simulateMatchday: match j+1 is drawn and compared
SampleMatch ==
  /\ spc = "matchday"
  /\ trial.j < Len(sreq.matches)
  /\ \E random \in RandSamples :
       trial' = [trial EXCEPT
                   !.j = @ + 1,
                   !.random = random,
                   !.actualOutcome =
                      selectWeightedRandomOutcome(sreq.matches[trial.j + 1], random),
                   !.correctCount =
                      @ + (IF sreq.outcomes[trial.j + 1]
                               = selectWeightedRandomOutcome(sreq.matches[trial.j + 1], random)
                           THEN 1 ELSE 0)]
  /\ UNCHANGED <<spc, sreq, tallies, sres>>

\* simulateMatchday returns correctCount; the trial is tallied and i++
EndTrial ==
  /\ spc = "matchday"
  /\ trial.j = Len(sreq.matches)
  /\ tallies' = countAtLeast(countExact(tallies, trial.correctCount), trial.correctCount)
  /\ trial' = [i |-> trial.i + 1, j |-> 0, correctCount |-> 0,
               totalCorrect |-> trial.totalCorrect + trial.correctCount,
               random |-> Zero, actualOutcome |-> NoString]
  /\ spc' = IF trial.i + 1 < sreq.iterations THEN "matchday" ELSE "aggregate"
  /\ UNCHANGED <<sreq, sres>>

\* after the loop: probabilities, averageCorrect, expectedPayout
Aggregate ==
  /\ spc = "aggregate"
  /\ sres' = [correctResults |-> toProbabilities(tallies, sreq.iterations),
              averageCorrect |-> RDiv(Int2Rat(trial.totalCorrect), Int2Rat(sreq.iterations)),
              expectedPayout |->
                calculateExpectedPayout(toProbabilities(tallies, sreq.iterations)),
              iterations |-> sreq.iterations]
  /\ spc' = "done"
  /\ UNCHANGED <<sreq, trial, tallies>>

NextSim ==
  \/ SimulateRowEnter /\ UNCHANGED <<oddsVars, kellyVars, apiVars, genVars, auxVars>>
  \/ SampleMatch /\ UNCHANGED <<oddsVars, kellyVars, apiVars, genVars, auxVars>>
  \/ EndTrial /\ UNCHANGED <<oddsVars, kellyVars, apiVars, genVars, auxVars>>
  \/ Aggregate /\ UNCHANGED <<oddsVars, kellyVars, apiVars, genVars, auxVars>>

-----------------------------------------------------------------------------
(* POST /api/simulate (handler listed at the end of SUPABASE_SETUP.md)      *)

MinIterations == 1000

MaxApiIterations == 1000000

DefaultIterations == 100000

BootstrapSamples == 1000

BootstrapSize == 1000

\* largest number of rows in a simulation request
MaxSimRows == 3

\* iterations values a request carries
IterationValues == {-5, 0, 999, 1000, 100000, 1000000, 1000001}

\* the invocations of the handler that may be in progress at a time
Invocations == {"A", "B"}

\* request bodies: rows = -1 stands for a body without a rows array, outcomesGiven
\* = FALSE for rows that carry no outcomes array
SimApiRequests ==
  {r \in [rows : -1..MaxSimRows, outcomesGiven : BOOLEAN, withConfidenceIntervals : BOOLEAN,
          iterationsGiven : BOOLEAN, iterations : IterationValues \cup {0}] :
     /\ (r.rows < 1 => r.outcomesGiven)
     /\ (~r.iterationsGiven => r.iterations = 0)}

\* what GET /api/stryktipset answers with: a slate, an empty list, or a document
\* without matches
SimDocuments ==
  [hasMatches : {TRUE}, matches : SimSlates \cup {<<>>}]
    \cup {[hasMatches |-> FALSE, matches |-> <<>>]}

\* const { ..., iterations = 100000 } = await request.json()
iterationsOf(req) == IF req.iterationsGiven THEN req.iterations ELSE DefaultIterations

\* the range test with the two bounds themselves rejected
iterationsRejected_exclusive(iterations) ==
  iterations <= MinIterations \/ iterations >= MaxApiIterations

\* if (iterations < 1000 || iterations > 1000000)
iterationsRejected(iterations) ==
  iterations < MinIterations \/ iterations > MaxApiIterations

\* passes of `for (let i = 0; i < iterations; i++)` in simulateRow
loopTrips(iterations) == IF iterations > 0 THEN iterations ELSE 0

\* what simulateRow / simulateWithConfidenceIntervals do for one row
rowSimulation(iterations, withIntervals, matches) ==
  [iterations |-> iterations,
   trialsRun |-> loopTrips(iterations),
   matchesPerTrial |-> Len(matches),
   bootstrapRuns |-> IF withIntervals THEN BootstrapSamples * BootstrapSize ELSE 0]

simulateError(status, error) ==
  [status |-> status, error |-> error, results |-> <<>>, iterations |-> 0]

\* the two tests between request.json() and the fetch: NoString when both pass
simulateRejection(req) ==
  IF req.rows <= 0 THEN "No rows provided for simulation"
  ELSE IF iterationsRejected(iterationsOf(req))
    THEN "Iterations must be between 1,000 and 1,000,000"
  ELSE NoString

\* matches.length of undefined, or predictions[i] of a row without outcomes
simulationThrows(req, doc) ==
  \/ ~doc.hasMatches
  \/ Len(doc.matches) > 0 /\ ~req.outcomesGiven

\* the handler from matchesData on
simulateResponse(req, doc) ==
  IF simulationThrows(req, doc) THEN simulateError(500, "Internal server error")
  ELSE [status |-> 200, error |-> "",
        results |-> [r \in 1..req.rows |->
                       rowSimulation(iterationsOf(req),
                                     req.withConfidenceIntervals /\ req.rows = 1,
                                     doc.matches)],
        iterations |-> iterationsOf(req)]

\* POST /api/simulate: invocation i is entered and waits for request.json()
PostSimulate(i) ==
  /\ areq[i].pc = "idle"
  /\ areq' = [areq EXCEPT ![i].pc = "body"]
  /\ UNCHANGED ares

\* request.json() settles: with the body, which is validated, or rejected when the
\* body is not JSON
SimulateBody(i) ==
  /\ areq[i].pc = "body"
  /\ \/ \E req \in SimApiRequests :
          /\ areq' = [areq EXCEPT
                        ![i].body = req,
                        ![i].pc = IF simulateRejection(req) = NoString THEN "fetch" ELSE "done"]
          /\ ares' = IF simulateRejection(req) = NoString THEN ares
                     ELSE [ares EXCEPT ![i] = simulateError(400, simulateRejection(req))]
     \/ /\ areq' = [areq EXCEPT ![i].pc = "done"]
        /\ ares' = [ares EXCEPT ![i] = simulateError(500, "Internal server error")]

\* fetch('/api/stryktipset') settles: with a response, or rejected
SimulateFetch(i) ==
  /\ areq[i].pc = "fetch"
  /\ \/ /\ areq' = [areq EXCEPT ![i].pc = "document"]
        /\ UNCHANGED ares
     \/ /\ areq' = [areq EXCEPT ![i].pc = "done", ![i].slate = "rejected"]
        /\ ares' = [ares EXCEPT ![i] = simulateError(500, "Internal server error")]

\* how the match list came back: no matches member, an empty list, or matches
slateOfDocument(doc) ==
  IF ~doc.hasMatches THEN "missing" ELSE IF doc.matches = <<>> THEN "empty" ELSE "matches"

\* matchesResponse.json() settles; with a document the simulation runs and the
\* handler answers
SimulateMatches(i) ==
  /\ areq[i].pc = "document"
  /\ \/ \E doc \in SimDocuments :
          /\ areq' = [areq EXCEPT ![i].pc = "done", ![i].slate = slateOfDocument(doc)]
          /\ ares' = [ares EXCEPT ![i] = simulateResponse(areq[i].body, doc)]
     \/ /\ areq' = [areq EXCEPT ![i].pc = "done", ![i].slate = "unparsed"]
        /\ ares' = [ares EXCEPT ![i] = simulateError(500, "Internal server error")]

\* the handler is async: between two of its awaits another invocation may run
NextSimApi ==
  \/ \E i \in Invocations :
       PostSimulate(i) /\ UNCHANGED <<oddsVars, kellyVars, simVars, genVars, auxVars>>
  \/ \E i \in Invocations :
       SimulateBody(i) /\ UNCHANGED <<oddsVars, kellyVars, simVars, genVars, auxVars>>
  \/ \E i \in Invocations :
       SimulateFetch(i) /\ UNCHANGED <<oddsVars, kellyVars, simVars, genVars, auxVars>>
  \/ \E i \in Invocations :
       SimulateMatches(i) /\ UNCHANGED <<oddsVars, kellyVars, simVars, genVars, auxVars>>

-----------------------------------------------------------------------------
(* Football intelligence (footballIntelligence.ts)                          *)

Max3(a, b, c) == RMax(RMax(a, b), c)

\* odds * probability - 1 for each outcome
expectedValues(odds, probabilities) ==
  Triple(RSub(RMul(odds.home, probabilities.home), One),
         RSub(RMul(odds.draw, probabilities.draw), One),
         RSub(RMul(odds.away, probabilities.away), One))

calculateValueScore(odds, probabilities) ==
  RMax(Zero,
       RMin(One,
            RDiv(RAdd(Max3(expectedValues(odds, probabilities).home,
                           expectedValues(odds, probabilities).draw,
                           expectedValues(odds, probabilities).away),
                      Rat(2, 10)),
                 Rat(4, 10))))

\* the sum of a {home, draw, away} object of counts or percentages
countTotal(c) == c.home + c.draw + c.away

calculatePublicSentiment(svenskaFolket) ==
  IF svenskaFolket = None THEN Rat(1, 2)
  ELSE IF countTotal(svenskaFolket) = 0 THEN Rat(1, 2)
  ELSE RDiv(Rat(svenskaFolket.away, countTotal(svenskaFolket)),
            RAdd(Rat(svenskaFolket.home, countTotal(svenskaFolket)),
                 Rat(svenskaFolket.away, countTotal(svenskaFolket))))

IntMax(a, b) == IF a < b THEN b ELSE a

calculateExpertConsensus(expertTips) ==
  IF expertTips = None THEN Rat(1, 2)
  ELSE IF countTotal(expertTips) = 0 THEN Zero
  ELSE Rat(IntMax(IntMax(expertTips.home, expertTips.draw), expertTips.away),
           countTotal(expertTips))

\* String.prototype.includes: sub occurs somewhere in str
includes(str, sub) ==
  \E i \in 1..(Len(str) - Len(sub) + 1) : SubSeq(str, i, i + Len(sub) - 1) = sub

\* league?.includes(name): false when the match has no league
leagueIncludes(league, name) == league # NoString /\ includes(league, name)

\* away teams that reduce the home advantage, spelled as in the source
bigTeams ==
  {"Manchester City", "Arsenal", "Liverpool", "Real Madrid", "Barcelona", "Bayern MÃ¼nchen"}

\* the league-specific base; a later test overrides an earlier one
leagueAdvantage(league) ==
  IF leagueIncludes(league, "Allsvenskan") THEN Rat(67, 100)
  ELSE IF leagueIncludes(league, "Bundesliga") THEN Rat(63, 100)
  ELSE IF leagueIncludes(league, "Serie A") THEN Rat(62, 100)
  ELSE IF leagueIncludes(league, "La Liga") THEN Rat(68, 100)
  ELSE IF leagueIncludes(league, "Premier League") THEN Rat(65, 100)
  ELSE Rat(6, 10)

calculateHomeAdvantage(homeTeam, awayTeam, league) ==
  RMax(Rat(4, 10),
       RMin(Rat(8, 10),
            IF \E team \in bigTeams : includes(awayTeam, team)
              THEN RSub(leagueAdvantage(league), Rat(1, 10))
              ELSE leagueAdvantage(league)))

\* entropy / log2(3), to three decimals, for the probability triples of GenPool
\* (Math.log2 has no exact rational value)
calculateUncertainty(probabilities) ==
  CASE probabilities = Triple(Rat(13, 20), Rat(1, 5), Rat(3, 20)) -> Rat(807, 1000)
    [] probabilities = Triple(Rat(1, 2), Rat(3, 10), Rat(1, 5))   -> Rat(937, 1000)
    [] probabilities = Triple(Rat(7, 20), Rat(2, 5), Rat(1, 4))   -> Rat(984, 1000)
    [] probabilities = Triple(Rat(1, 4), Rat(1, 4), Rat(1, 2))    -> Rat(946, 1000)
    [] probabilities = Triple(Rat(1, 3), Rat(1, 3), Rat(1, 3))    -> One
    [] probabilities = Triple(Rat(3, 4), Rat(3, 20), Rat(1, 10))  -> Rat(665, 1000)

\* |odds-implied share - public share| summed over the three outcomes
disagreement(n, svenskaFolket) ==
  RAdd(RAdd(RAbs(RSub(n.home, Rat(svenskaFolket.home, countTotal(svenskaFolket)))),
            RAbs(RSub(n.draw, Rat(svenskaFolket.draw, countTotal(svenskaFolket))))),
       RAbs(RSub(n.away, Rat(svenskaFolket.away, countTotal(svenskaFolket)))))

calculateContrarianScore(odds, svenskaFolket) ==
  IF svenskaFolket = None THEN Zero
  ELSE IF countTotal(svenskaFolket) = 0 THEN Zero
  ELSE RMin(One, RDiv(disagreement(scaleBy(impliedProbs(odds), TripleSum(impliedProbs(odds))),
                                   svenskaFolket), Rat(6, 10)))

\* the first of home, draw, away that is >= the ones after it
firstGreatest(t) ==
  IF RLe(t.draw, t.home) /\ RLe(t.away, t.home) THEN "1"
  ELSE IF RLe(t.away, t.draw) THEN "X"
  ELSE "2"

\* the pick with the comparisons turned around: the first least weighted probability
getSafePick_least(probabilities, expertConsensus) ==
  IF RLe(probabilities.home, probabilities.draw) /\ RLe(probabilities.home, probabilities.away)
    THEN "1"
  ELSE IF RLe(probabilities.draw, probabilities.away) THEN "X"
  ELSE "2"

getSafePick(probabilities, expertConsensus) ==
  firstGreatest(scaleBy(probabilities,
                        RDiv(One, RAdd(Rat(7, 10), RMul(expertConsensus, Rat(3, 10))))))

getValuePick(odds, probabilities) == firstGreatest(expectedValues(odds, probabilities))

\* the least popular outcome among the public, the first on a tie
leastPopular(svenskaFolket) ==
  IF svenskaFolket.home <= svenskaFolket.draw /\ svenskaFolket.home <= svenskaFolket.away
    THEN "1"
  ELSE IF svenskaFolket.draw <= svenskaFolket.away THEN "X"
  ELSE "2"

getContrarianPick(odds, svenskaFolket, contrarianScore) ==
  IF svenskaFolket = None \/ contrarianScore = Zero \/ RLt(contrarianScore, Rat(3, 10))
    THEN getValuePick(odds, impliedProbs(odds))
  ELSE IF countTotal(svenskaFolket) = 0 THEN "1"
  ELSE leastPopular(svenskaFolket)

calculateOverallConfidence(scores) ==
  RMax(Zero,
       RMin(One,
            RAdd(RAdd(RAdd(RAdd(RMul(scores.valueScore, Rat(25, 100)),
                                RMul(scores.expertConsensus, Rat(3, 10))),
                           RMul(scores.homeAdvantage, Rat(15, 100))),
                      RMul(RSub(One, scores.uncertaintyScore), Rat(2, 10))),
                 RMul(scores.contrarian, Rat(1, 10)))))

generateRecommendations(match, scores) ==
  [safePick   |-> getSafePick(match.probabilities, scores.expertConsensus),
   valuePick  |-> getValuePick(match.odds, match.probabilities),
   contrarian |-> getContrarianPick(match.odds, match.svenskaFolket, scores.contrarian),
   confidence |-> calculateOverallConfidence(scores)]

scoresOf(match) ==
  [valueScore       |-> calculateValueScore(match.odds, match.probabilities),
   publicSentiment  |-> calculatePublicSentiment(match.svenskaFolket),
   expertConsensus  |-> calculateExpertConsensus(match.expertTips),
   homeAdvantage    |-> calculateHomeAdvantage(match.home, match.away, match.league),
   uncertaintyScore |-> calculateUncertainty(match.probabilities),
   contrarian       |-> calculateContrarianScore(match.odds, match.svenskaFolket)]

intelligence(match, scores) ==
  [match |-> match, scores |-> scores,
   recommendations |-> generateRecommendations(match, scores)]

analyzeMatch(match) == intelligence(match, scoresOf(match))

-----------------------------------------------------------------------------
(* SystemDesign (systemGenerator.ts)                                        *)

\* largest halves / fulls count of a requested distribution
MaxHalves == 2

MaxFulls == 1

\* what Math.random() returns during one run of generateSystem: the values of a
\* tape in turn, starting over at its end.  A run may have any of these tapes: the
\* same value at every call, two values in alternation, or a longer sequence.
\* Over the tapes the risky profile makes every number of swap passes it can:
\* 6 to 12 on 13 matches, 6 to 11 on 12.
RandomTapes ==
  {<<r1, r2>> : r1 \in RandSamples, r2 \in RandSamples}
    \cup {<<Rat(1, 8), Rat(1, 8), Rat(3, 8), Rat(3, 8), Rat(5, 8), Rat(5, 8),
            Rat(7, 8)>>,
          <<Rat(7, 8), Rat(5, 8), Rat(3, 8), Rat(3, 8), Rat(1, 8)>>,
          <<Rat(5, 8), Rat(5, 8), Rat(7, 8), Rat(1, 8), Rat(1, 8), Rat(3, 8), Rat(7, 8),
            Rat(3, 8), Rat(5, 8), Rat(1, 8), Rat(7, 8)>>,
          <<Rat(3, 8), Rat(1, 8), Rat(5, 8)>>,
          <<Rat(7, 16), Rat(9, 16), Rat(1, 16), Rat(15, 16), Rat(5, 16), Rat(11, 16),
            Rat(3, 16), Rat(13, 16), Rat(9, 16)>>,
          <<Rat(11, 16), Rat(3, 16), Rat(13, 16), Rat(5, 16)>>,
          <<Rat(9, 16), Rat(1, 16), Rat(13, 16)>>,
          <<Rat(3, 16), Rat(11, 16), Rat(5, 16), Rat(7, 16), Rat(15, 16)>>,
          <<Rat(5, 8), Rat(13, 16)>>}

\* the k-th value Math.random() returns in a run, k = 1, 2, ...
randomAt(tape, k) == tape[((k - 1) % Len(tape)) + 1]

\* the values the next seven calls of Math.random() return after drawn calls
upcoming(tape, drawn) == [j \in 1..7 |-> randomAt(tape, drawn + j)]

Counts(h, d, a) == [home |-> h, draw |-> d, away |-> a]

GenMatch(home, away, league, odds, probabilities, svenskaFolket, expertTips) ==
  [home |-> home, away |-> away, league |-> league, odds |-> odds,
   probabilities |-> probabilities, svenskaFolket |-> svenskaFolket,
   expertTips |-> expertTips]

\* the matches slates are made of
GenPool ==
  <<GenMatch("Brighton", "Everton", "English Premier League",
             Triple(Rat(3, 2), Rat(18, 5), Rat(6, 1)),
             Triple(Rat(13, 20), Rat(1, 5), Rat(3, 20)), Counts(55, 25, 20), Counts(7, 2, 1)),
    GenMatch("Elfsborg", "Hammarby", NoString,
             Triple(Rat(2, 1), Rat(3, 1), Rat(6, 1)),
             Triple(Rat(1, 2), Rat(3, 10), Rat(1, 5)), None, None),
    GenMatch("Sevilla", "FC Barcelona", "La Liga",
             Triple(Rat(5, 2), Rat(5, 2), Rat(5, 1)),
             Triple(Rat(7, 20), Rat(2, 5), Rat(1, 4)), Counts(20, 30, 50), Counts(3, 3, 4)),
    GenMatch("Sirius", "Djurgarden", "Allsvenskan",
             Triple(Rat(4, 1), Rat(4, 1), Rat(2, 1)),
             Triple(Rat(1, 4), Rat(1, 4), Rat(1, 2)), Counts(60, 25, 15), Counts(0, 0, 0)),
    GenMatch("Leeds", "Stoke", NoString,
             Triple(Rat(3, 1), Rat(3, 1), Rat(3, 1)),
             Triple(Rat(1, 3), Rat(1, 3), Rat(1, 3)), None, Counts(5, 5, 0)),
    GenMatch("Dortmund", "Mainz", "Bundesliga",
             Triple(Rat(13, 10), Rat(6, 1), Rat(14, 1)),
             Triple(Rat(3, 4), Rat(3, 20), Rat(1, 10)), Counts(70, 20, 10), Counts(10, 0, 0))>>

\* pool entry p as the match with matchId i
withId(m, i) ==
  [matchId |-> i, home |-> m.home, away |-> m.away, league |-> m.league, odds |-> m.odds,
   probabilities |-> m.probabilities, svenskaFolket |-> m.svenskaFolket,
   expertTips |-> m.expertTips]

\* a slate: NumMatches matches in input order
slateOf(picks) == [i \in 1..NumMatches |-> withId(GenPool[picks[i]], i)]

GenSlates ==
  {slateOf(<<1, 2, 3, 4, 5, 6, 1, 2, 3, 4, 5, 6, 1>>),
   slateOf(<<6, 4, 2, 5, 3, 1, 3, 6, 5, 2, 4, 1, 5>>)}

\* distributions a request carries: those summing to the slate size with few
\* halves and fulls, the one of 13 fulls (3^13 rows), one that is one match short
\* and one with a negative halves count
Distributions ==
  {d \in [halves : 0..MaxHalves, fulls : 0..MaxFulls, singles : 0..NumMatches] :
     d.halves + d.fulls + d.singles = NumMatches}
    \cup {[halves |-> 0, fulls |-> NumMatches, singles |-> 0],
          [halves |-> 2, fulls |-> 1, singles |-> NumMatches - 4],
          [halves |-> -1, fulls |-> 0, singles |-> NumMatches + 1]}

COST_PER_ROW == 1

\* Math.pow on whole numbers: a negative exponent gives the reciprocal
pow(base, exponent) ==
  IF exponent >= 0 THEN Int2Rat(base ^ exponent) ELSE Rat(1, base ^ (0 - exponent))

calculateRows(halves, fulls, singles) ==
  RMul(RMul(pow(2, halves), pow(3, fulls)), pow(1, singles))

systemResult(halves, fulls, singles) ==
  [totalRows |-> calculateRows(halves, fulls, singles),
   cost |-> RMul(calculateRows(halves, fulls, singles), Int2Rat(COST_PER_ROW)),
   costPerRow |-> COST_PER_ROW,
   distribution |-> [halves |-> halves, fulls |-> fulls, singles |-> singles]]

\* a SystemConfiguration as the client takes it from the calculator
systemConfigOf(d) == systemResult(d.halves, d.fulls, d.singles)

\* a configuration whose totals are those of the system-96 preset while its
\* distribution is another one
staleConfig ==
  [systemConfigOf([halves |-> 1, fulls |-> 0, singles |-> NumMatches - 1])
     EXCEPT !.totalRows = Int2Rat(96), !.cost = Int2Rat(96)]

RiskProfiles == {"safe", "balanced", "risky"}

\* request bodies of POST /api/generate-system; matches is filled in from the
\* document the handler fetches
GenRequests ==
  [systemConfig : {systemConfigOf(d) : d \in Distributions} \cup {staleConfig, None},
   riskProfile : RiskProfiles \cup {NoString, "extreme"},
   matches : {<<>>}]

\* {...analysis, index, strategicValue}
strategicMatch(analysis, index) ==
  [match |-> analysis.match, scores |-> analysis.scores,
   recommendations |-> analysis.recommendations, index |-> index,
   strategicValue |-> RAdd(RMul(analysis.scores.uncertaintyScore, Rat(6, 10)),
                           RMul(analysis.scores.valueScore, Rat(4, 10)))]

\* x placed after the k leading elements of s
insertAt(s, k, x) == SubSeq(s, 1, k) \o <<x>> \o SubSeq(s, k + 1, Len(s))

\* Array.prototype.sort with (a, b) => b.strategicValue - a.strategicValue: descending
\* and stable
RECURSIVE sortByStrategicValue(_)
sortByStrategicValue(s) ==
  IF s = <<>> THEN <<>>
  ELSE insertAt(sortByStrategicValue(SubSeq(s, 1, Len(s) - 1)),
                Cardinality({i \in 1..(Len(s) - 1) :
                               RLe(s[Len(s)].strategicValue, s[i].strategicValue)}),
                s[Len(s)])

\* the ranking selectSystemOutcomes starts from
\* the ranking with the sort left out: the matches in input order
rankMatches_unsorted(matches) ==
  [i \in 1..Len(matches) |-> strategicMatch(analyzeMatch(matches[i]), i)]

rankMatches(matches) ==
  sortByStrategicValue([i \in 1..Len(matches) |-> strategicMatch(analyzeMatch(matches[i]), i)])

\* (Math.random() - 0.5) * 0.8 added to every strategic value in ranking order,
\* one call per match, then the re-sort
addNoise(strategicMatches, tape) ==
  sortByStrategicValue(
    [k \in 1..Len(strategicMatches) |->
       [strategicMatches[k] EXCEPT
          !.strategicValue =
             RAdd(@, RMul(RSub(randomAt(tape, k), Rat(1, 2)), Rat(8, 10)))]])

\* Math.floor(length * (0.5 + random * 0.5))
numSwaps(length, random) ==
  Floor(RMul(Int2Rat(length), RAdd(Rat(1, 2), RMul(random, Rat(1, 2)))))

\* Math.floor(random * length), a 0-based array index
randomIndex(random, length) == Floor(RMul(random, Int2Rat(length)))

\* s[idx1] = s[idx2] alone: the element at idx1 is lost
swapAt_overwrite(s, idx1, idx2) == [s EXCEPT ![idx1 + 1] = s[idx2 + 1]]

\* [s[idx1], s[idx2]] = [s[idx2], s[idx1]] with 0-based indices
swapAt(s, idx1, idx2) == [s EXCEPT ![idx1 + 1] = s[idx2 + 1], ![idx2 + 1] = s[idx1 + 1]]

\* one swap with both indices drawn over the whole ranking
swapInMiddle_anywhere(s, r1, r2) ==
  swapAt(s, randomIndex(r1, Len(s)), randomIndex(r2, Len(s)))

\* one swap inside middle = slice(4, 9), spliced back between stable and bottom
swapInMiddle(s, r1, r2) ==
  SubSeq(s, 1, 4)
    \o swapAt(SubSeq(s, 5, 9), randomIndex(r1, Len(SubSeq(s, 5, 9))),
              randomIndex(r2, Len(SubSeq(s, 5, 9))))
    \o SubSeq(s, 10, Len(s))

reverse(s) == [k \in 1..Len(s) |-> s[Len(s) + 1 - k]]

\* the pair built around pick, completed by the less likely of the two other outcomes
halfByProbability_lesser(pick, p) ==
  IF pick = "1" THEN (IF RLt(p.away, p.draw) THEN "12" ELSE "1X")
  ELSE IF pick = "X" THEN (IF RLt(p.away, p.home) THEN "X2" ELSE "1X")
  ELSE (IF RLt(p.draw, p.home) THEN "X2" ELSE "12")

\* the pair built around pick, completed by the likelier of the two other outcomes
halfByProbability(pick, p) ==
  IF pick = "1" THEN (IF RLt(p.away, p.draw) THEN "1X" ELSE "12")
  ELSE IF pick = "X" THEN (IF RLt(p.away, p.home) THEN "1X" ELSE "X2")
  ELSE (IF RLt(p.draw, p.home) THEN "12" ELSE "X2")

\* the two pairs containing pick, in the order the code lists them
firstHalfWith(pick) == IF pick = "2" THEN "12" ELSE "1X"

secondHalfWith(pick) == IF pick = "1" THEN "12" ELSE "X2"

\* r1, r2: the two Math.random() values the risky branch draws
selectIntelligentHalf(analysis, riskProfile, r1, r2) ==
  IF riskProfile = "safe"
    THEN halfByProbability(analysis.recommendations.safePick, analysis.match.probabilities)
  ELSE IF riskProfile = "risky"
    THEN IF RLt(r1, RAdd(RMul(analysis.scores.contrarian, Rat(8, 10)), Rat(2, 10)))
           THEN IF RLt(r2, Rat(33, 100))
                  THEN firstHalfWith(analysis.recommendations.contrarian)
                ELSE IF RLt(r2, Rat(66, 100))
                  THEN secondHalfWith(analysis.recommendations.contrarian)
                ELSE halfByProbability(analysis.recommendations.contrarian,
                                       analysis.match.probabilities)
           ELSE IF RLt(r2, Rat(6, 10))
                  THEN halfByProbability(analysis.recommendations.valuePick,
                                         analysis.match.probabilities)
                ELSE IF RLt(r2, Rat(8, 10))
                  THEN firstHalfWith(analysis.recommendations.valuePick)
                ELSE secondHalfWith(analysis.recommendations.valuePick)
  ELSE halfByProbability(
         IF RLt(Rat(7, 10), analysis.recommendations.confidence)
           THEN analysis.recommendations.safePick
           ELSE analysis.recommendations.valuePick,
         analysis.match.probabilities)

\* allOutcomes.filter(o => !uniquePicks.includes(o))
otherOutcomes(recommendations) ==
  SelectSeq(Outcomes,
            LAMBDA o : o \notin {recommendations.safePick, recommendations.valuePick,
                                 recommendations.contrarian})

\* the three weighted strategies; bonus is the factor applied to the contrarian weight
strategiesOf(recommendations, chaosMultiplier, bonus) ==
  <<[pick |-> recommendations.valuePick, weight |-> RMul(Rat(4, 10), chaosMultiplier)],
    [pick |-> recommendations.contrarian,
     weight |-> RMul(RMul(Rat(35, 100), chaosMultiplier), bonus)],
    [pick |-> recommendations.safePick, weight |-> RMul(Rat(25, 100), chaosMultiplier)]>>

\* the Fisher-Yates pass over three strategies: i = 2 draws j1, i = 1 draws j0
shuffle(strategies, j1, j0) == swapAt(swapAt(strategies, 2, j1), 1, j0)

totalWeight(strategies) ==
  RAdd(RAdd(strategies[1].weight, strategies[2].weight), strategies[3].weight)

\* the first strategy whose cumulative weight reaches random, else the fallback
pickByWeight(strategies, random, fallback) ==
  IF RLe(random, strategies[1].weight) THEN strategies[1].pick
  ELSE IF RLe(random, RAdd(strategies[1].weight, strategies[2].weight))
    THEN strategies[2].pick
  ELSE IF RLe(random, totalWeight(strategies)) THEN strategies[3].pick
  ELSE fallback

\* scores.contrarian > 0.6: the contrarian weight gets its bonus, one more call
hasBonus(analysis) == RLt(Rat(6, 10), analysis.scores.contrarian)

\* the strategies before the shuffle; e holds the calls from chaosMultiplier on
chaosStrategies(analysis, e) ==
  strategiesOf(analysis.recommendations,
               RAdd(Rat(1, 2), e[1]),
               IF hasBonus(analysis) THEN RAdd(One, RMul(e[2], Rat(1, 2))) ELSE One)

\* the calls of the Fisher-Yates pass and the last call, in e from position p on
weightedFrom(analysis, strategies, e, p) ==
  IF RLt(e[p], Rat(3, 10))
    THEN pickByWeight(shuffle(strategies, randomIndex(e[p + 1], 3), randomIndex(e[p + 2], 2)),
                      RMul(e[p + 3], totalWeight(strategies)),
                      analysis.recommendations.valuePick)
    ELSE pickByWeight(strategies, RMul(e[p + 1], totalWeight(strategies)),
                      analysis.recommendations.valuePick)

\* the weighted choice that ends the risky branch
weightedSingle(analysis, e) ==
  weightedFrom(analysis, chaosStrategies(analysis, e), e,
               IF hasBonus(analysis) THEN 3 ELSE 2)

\* d holds the values Math.random() returns from the first call of the function on
selectIntelligentSingle(analysis, riskProfile, d) ==
  IF riskProfile = "safe" THEN analysis.recommendations.safePick
  ELSE IF riskProfile = "risky"
    THEN IF RLt(d[1], Rat(1, 4))
           THEN Outcomes[randomIndex(d[2], Len(Outcomes)) + 1]
         ELSE IF RLt(d[1], Rat(1, 2)) /\ Len(otherOutcomes(analysis.recommendations)) > 0
           THEN otherOutcomes(analysis.recommendations)[
                  randomIndex(d[2], Len(otherOutcomes(analysis.recommendations))) + 1]
         ELSE weightedSingle(analysis, SubSeq(d, 2, Len(d)))
  ELSE IF RLt(Rat(65, 100), analysis.recommendations.confidence)
    THEN analysis.recommendations.safePick
  ELSE analysis.recommendations.valuePick

\* how many times selectIntelligentSingle calls Math.random()
singleCalls(analysis, riskProfile, d) ==
  IF riskProfile # "risky" THEN 0
  ELSE IF RLt(d[1], Rat(1, 4)) THEN 2
  ELSE IF RLt(d[1], Rat(1, 2)) /\ Len(otherOutcomes(analysis.recommendations)) > 0 THEN 2
  ELSE 3 + (IF hasBonus(analysis) THEN 1 ELSE 0)
         + (IF RLt(d[IF hasBonus(analysis) THEN 4 ELSE 3], Rat(3, 10)) THEN 3 ELSE 1)

\* the branch of the assignment loop taken with one more half allowed than asked for
coverageClass_oneMoreHalf(halvesAssigned, fullsAssigned, distribution) ==
  IF halvesAssigned <= distribution.halves THEN "half"
  ELSE IF fullsAssigned < distribution.fulls THEN "full"
  ELSE "single"

\* the branch of the assignment loop for the next match in the ranking
coverageClass(halvesAssigned, fullsAssigned, distribution) ==
  IF halvesAssigned < distribution.halves THEN "half"
  ELSE IF fullsAssigned < distribution.fulls THEN "full"
  ELSE "single"

\* the system outcome of the next match of the ranking; d holds the values the
\* coming calls of Math.random() return
systemOutcomeOf(class, analysis, riskProfile, d) ==
  IF class = "half" THEN selectIntelligentHalf(analysis, riskProfile, d[1], d[2])
  ELSE IF class = "full" THEN "1X2"
  ELSE selectIntelligentSingle(analysis, riskProfile, d)

\* how many times Math.random() is called for that match
callsFor(class, analysis, riskProfile, d) ==
  IF class = "half" THEN (IF riskProfile = "risky" THEN 2 ELSE 0)
  ELSE IF class = "full" THEN 0
  ELSE singleCalls(analysis, riskProfile, d)

\* systemMatches[analysis.index] = {...match, systemOutcome}
assigned(systemMatches, analysis, systemOutcome) ==
  [systemMatches EXCEPT
     ![analysis.index] = [matchId |-> analysis.match.matchId,
                          odds |-> analysis.match.odds,
                          probabilities |-> analysis.match.probabilities,
                          systemOutcome |-> systemOutcome]]

\* new Array(13): every slot empty
EmptySlot == [matchId |-> 0, odds |-> None, probabilities |-> None, systemOutcome |-> NoString]

\* the assignment loop from ranking position i on, after drawn calls of Math.random()
RECURSIVE assignLoop(_, _, _, _, _, _, _, _)
assignLoop(systemMatches, strategicMatches, i, halvesAssigned, fullsAssigned, req, tape, drawn) ==
  IF i > Len(strategicMatches) THEN [systemMatches |-> systemMatches, drawn |-> drawn]
  ELSE assignLoop(
         assigned(systemMatches, strategicMatches[i],
                  systemOutcomeOf(coverageClass(halvesAssigned, fullsAssigned,
                                                req.systemConfig.distribution),
                                  strategicMatches[i], req.riskProfile,
                                  upcoming(tape, drawn))),
         strategicMatches, i + 1,
         IF coverageClass(halvesAssigned, fullsAssigned, req.systemConfig.distribution)
              = "half"
           THEN halvesAssigned + 1 ELSE halvesAssigned,
         IF coverageClass(halvesAssigned, fullsAssigned, req.systemConfig.distribution)
              = "full"
           THEN fullsAssigned + 1 ELSE fullsAssigned,
         req, tape,
         drawn + callsFor(coverageClass(halvesAssigned, fullsAssigned,
                                        req.systemConfig.distribution),
                          strategicMatches[i], req.riskProfile, upcoming(tape, drawn)))

\* the loop as selectSystemOutcomes runs it: the filled array and the number of
\* calls of Math.random() made by then
assignAll(strategicMatches, req, tape, drawn) ==
  assignLoop([i \in 1..NumMatches |-> EmptySlot], strategicMatches, 1, 0, 0, req, tape, drawn)

assignOutcomes(strategicMatches, req, tape, drawn) ==
  assignAll(strategicMatches, req, tape, drawn).systemMatches

\* for each combination, for each possible outcome: [...combination, outcome]
extendCombinations(combinations, possibleOutcomes) ==
  [k \in 1..(Len(combinations) * Len(possibleOutcomes)) |->
     Append(combinations[((k - 1) \div Len(possibleOutcomes)) + 1],
            possibleOutcomes[((k - 1) % Len(possibleOutcomes)) + 1])]

\* a half expanded to its first outcome twice
expandSystemOutcome_repeated(systemOutcome) ==
  CASE systemOutcome = "1" -> <<"1">>
    [] systemOutcome = "X" -> <<"X">>
    [] systemOutcome = "2" -> <<"2">>
    [] systemOutcome = "1X" -> <<"1", "1">>
    [] systemOutcome = "12" -> <<"1", "1">>
    [] systemOutcome = "X2" -> <<"X", "X">>
    [] systemOutcome = "1X2" -> <<"1", "X", "2">>
    [] OTHER -> <<"1">>

expandSystemOutcome(systemOutcome) ==
  CASE systemOutcome = "1" -> <<"1">>
    [] systemOutcome = "X" -> <<"X">>
    [] systemOutcome = "2" -> <<"2">>
    [] systemOutcome = "1X" -> <<"1", "X">>
    [] systemOutcome = "12" -> <<"1", "2">>
    [] systemOutcome = "X2" -> <<"X", "2">>
    [] systemOutcome = "1X2" -> <<"1", "X", "2">>
    [] OTHER -> <<"1">>

\* the combinations after the first n matches
RECURSIVE combinationsAfter(_, _)
combinationsAfter(systemMatches, n) ==
  IF n = 0 THEN <<<<>>>>
  ELSE extendCombinations(combinationsAfter(systemMatches, n - 1),
                          expandSystemOutcome(systemMatches[n].systemOutcome))

\* the expansion whose last round does not clear the array: the combinations of
\* the round before stay in front of the new ones
generateOutcomeCombinations_noClear(systemMatches) ==
  IF systemMatches = <<>> THEN <<<<>>>>
  ELSE combinationsAfter(systemMatches, Len(systemMatches) - 1)
         \o combinationsAfter(systemMatches, Len(systemMatches))

generateOutcomeCombinations(systemMatches) ==
  combinationsAfter(systemMatches, Len(systemMatches))

\* newCombinations.length after the first n matches
RECURSIVE combinationCount(_, _)
combinationCount(systemMatches, n) ==
  IF n = 0 THEN 1
  ELSE combinationCount(systemMatches, n - 1)
         * Len(expandSystemOutcome(systemMatches[n].systemOutcome))

\* combinations.push(...newCombinations) passes every element as an argument of
\* one call.  An engine takes only so many: JavaScriptCore 65536, V8 as many as
\* fit on its stack (about 120000), SpiderMonkey 500000.  With more the call
\* throws a RangeError.
MinArgumentLimit == 65536

MaxArgumentLimit == 500000

\* whether generateOutcomeCombinations throws: never while every spread is short
\* enough for each engine, always when one is too long for all of them, and
\* either way in between
spreadThrows(systemMatches) ==
  IF combinationCount(systemMatches, Len(systemMatches)) > MaxArgumentLimit THEN {TRUE}
  ELSE IF combinationCount(systemMatches, Len(systemMatches)) > MinArgumentLimit
    THEN {TRUE, FALSE}
    ELSE {FALSE}

\* the outcomes of the rows, in row order (row k has id system_row_(k-1))
generateAllSystemRows(systemMatches) == generateOutcomeCombinations(systemMatches)

\* json({ error }, { status })
errorResponse(status, error) ==
  [status |-> status, success |-> FALSE, error |-> error, matches |-> <<>>,
   configuration |-> None, generated |-> 0, cost |-> 0]

\* json({ success: true, system, generated, cost })
successResponse(systemMatches, allRows, config) ==
  [status |-> 200, success |-> TRUE, error |-> NoString, matches |-> systemMatches,
   configuration |-> config, generated |-> Len(allRows), cost |-> config.cost]

\* a run that calls Math.random() nowhere the model follows
NoTape == <<Zero>>

\* what GET /api/stryktipset answers with: a slate, a slate one match short, or a
\* document without matches
GenDocuments ==
  {[hasMatches |-> TRUE, matches |-> m] : m \in GenSlates}
    \cup {[hasMatches |-> TRUE,
           matches |-> SubSeq(slateOf(<<1, 2, 3, 4, 5, 6, 1, 2, 3, 4, 5, 6, 1>>), 1,
                              NumMatches - 1)],
          [hasMatches |-> FALSE, matches |-> <<>>]}

\* POST /api/generate-system: the handler is entered and waits for request.json()
PostGenerateSystem ==
  /\ gpc = "idle"
  /\ gpc' = "body"
  /\ UNCHANGED <<greq, order, swapsLeft, plan, rows, gresp, randoms, calls>>

\* request.json() settles: with the body, or rejected when the body is not JSON
GenerateSystemBody ==
  /\ gpc = "body"
  /\ \/ /\ \E body \in GenRequests : greq' = body
        /\ gpc' = "fetch"
        /\ UNCHANGED gresp
     \/ /\ gresp' = errorResponse(500, "Internal server error")
        /\ gpc' = "done"
        /\ UNCHANGED greq
  /\ UNCHANGED <<order, swapsLeft, plan, rows, randoms, calls>>

\* fetch('/api/stryktipset') settles: with a response, or rejected
GenerateSystemFetch ==
  /\ gpc = "fetch"
  /\ \/ /\ gpc' = "document"
        /\ UNCHANGED gresp
     \/ /\ gresp' = errorResponse(500, "Internal server error")
        /\ gpc' = "done"
  /\ UNCHANGED <<greq, order, swapsLeft, plan, rows, randoms, calls>>

\* matchesResponse.json() settles; with a document the handler validates the body
\* and generateSystem runs up to the ranking of the matches and the first calls of
\* Math.random()
GenerateSystemMatches ==
  /\ gpc = "document"
  /\ \/ /\ gresp' = errorResponse(500, "Internal server error")
        /\ gpc' = "done"
        /\ UNCHANGED <<greq, order, swapsLeft, randoms, calls>>
     \/ \E doc \in GenDocuments :
          /\ greq' = [greq EXCEPT !.matches = doc.matches]
          /\ \/ /\ greq.systemConfig = None \/ greq.riskProfile = NoString
                /\ gresp' = errorResponse(400, "Missing systemConfig or riskProfile")
                /\ gpc' = "done"
                /\ UNCHANGED <<order, swapsLeft, randoms, calls>>
             \/ /\ greq.systemConfig # None /\ greq.riskProfile # NoString
                /\ greq.riskProfile \notin RiskProfiles
                /\ gresp' = errorResponse(400, "Invalid risk profile")
                /\ gpc' = "done"
                /\ UNCHANGED <<order, swapsLeft, randoms, calls>>
             \/ /\ greq.systemConfig # None /\ greq.riskProfile \in RiskProfiles
                /\ ~doc.hasMatches
                /\ gresp' = errorResponse(500, "Internal server error")
                /\ gpc' = "done"
                /\ UNCHANGED <<order, swapsLeft, randoms, calls>>
             \/ /\ greq.systemConfig # None /\ greq.riskProfile = "risky"
                /\ doc.hasMatches
                /\ \E t \in RandomTapes :
                     /\ randoms' = t
                     /\ order' = addNoise(rankMatches(doc.matches), t)
                     /\ swapsLeft' = numSwaps(Len(doc.matches),
                                              randomAt(t, Len(doc.matches) + 1))
                /\ calls' = Len(doc.matches) + 1
                /\ gpc' = "swap"
                /\ UNCHANGED gresp
             \/ /\ greq.systemConfig # None /\ greq.riskProfile = "balanced"
                /\ doc.hasMatches
                /\ order' = rankMatches(doc.matches)
                /\ \E t \in RandomTapes :
                     /\ randoms' = t
                     /\ IF RLt(randomAt(t, 1), Rat(7, 10))
                          THEN swapsLeft' = 3 /\ gpc' = "swap"
                          ELSE swapsLeft' = 0 /\ gpc' = "assign"
                /\ calls' = 1
                /\ UNCHANGED gresp
             \/ /\ greq.systemConfig # None /\ greq.riskProfile = "safe"
                /\ doc.hasMatches
                /\ order' = rankMatches(doc.matches)
                /\ swapsLeft' = 0
                /\ randoms' = NoTape /\ calls' = 0
                /\ gpc' = "assign"
                /\ UNCHANGED gresp
  /\ UNCHANGED <<plan, rows>>

\* one pass of a swap loop: two calls of Math.random()
Swap ==
  /\ gpc = "swap" /\ swapsLeft > 0
  /\ order' = IF greq.riskProfile = "risky"
                THEN swapAt(order, randomIndex(randomAt(randoms, calls + 1), Len(order)),
                            randomIndex(randomAt(randoms, calls + 2), Len(order)))
                ELSE swapInMiddle(order, randomAt(randoms, calls + 1), randomAt(randoms, calls + 2))
  /\ swapsLeft' = swapsLeft - 1
  /\ calls' = calls + 2
  /\ UNCHANGED <<gpc, greq, plan, rows, gresp, randoms>>

\* after the swaps: the risky profile calls Math.random() once more and reverses the
\* ranking when the value is below 0.3
FinishPerturb ==
  /\ gpc = "swap" /\ swapsLeft = 0
  /\ order' = IF greq.riskProfile = "risky" /\ RLt(randomAt(randoms, calls + 1), Rat(3, 10))
                THEN reverse(order) ELSE order
  /\ calls' = IF greq.riskProfile = "risky" THEN calls + 1 ELSE calls
  /\ gpc' = "assign"
  /\ UNCHANGED <<greq, swapsLeft, plan, rows, gresp, randoms>>

\* the assignment loop of selectSystemOutcomes
Assign ==
  /\ gpc = "assign"
  /\ plan' = assignOutcomes(order, greq, randoms, calls)
  /\ calls' = assignAll(order, greq, randoms, calls).drawn
  /\ gpc' = "expand"
  /\ UNCHANGED <<greq, order, swapsLeft, rows, gresp, randoms>>

\* the array has a hole: for...of yields undefined and match.systemOutcome throws
hasHole(systemMatches) == \E i \in 1..Len(systemMatches) : systemMatches[i] = EmptySlot

\* generateAllSystemRows, then generateSystemId(), which calls Math.random() once
\* more for the id of the system, and the response; an exception of the expansion
\* (a hole in the plan, a spread too long) is caught by the handler
Expand ==
  /\ gpc = "expand"
  /\ IF hasHole(plan)
       THEN /\ gresp' = errorResponse(500, "Internal server error")
            /\ UNCHANGED <<rows, calls>>
       ELSE \E thrown \in spreadThrows(plan) :
              IF thrown
                THEN /\ gresp' = errorResponse(500, "Internal server error")
                     /\ UNCHANGED <<rows, calls>>
                ELSE /\ rows' = generateAllSystemRows(plan)
                     /\ calls' = calls + 1
                     /\ gresp' = successResponse(plan, generateAllSystemRows(plan),
                                                 greq.systemConfig)
  /\ gpc' = "done"
  /\ UNCHANGED <<greq, order, swapsLeft, plan, randoms>>

-----------------------------------------------------------------------------
(* Risk adjustment of a probability triple (odds.ts)                        *)

\* prob * (1 + riskFactor * (0.5 - prob)), clamped to [0, 1]
adjustProbabilityForRisk(prob, riskFactor) ==
  RMax(Zero, RMin(One, RMul(prob, RAdd(One, RMul(riskFactor, RSub(Rat(1, 2), prob))))))

\* the risk factors with safe and risky exchanged
getRiskFactor_swapped(profile) ==
  CASE profile = "safe"     -> Rat(7, 10)
    [] profile = "balanced" -> Zero
    [] profile = "risky"    -> Rat(-7, 10)
    [] OTHER                -> Zero

getRiskFactor(profile) ==
  CASE profile = "safe"     -> Rat(-7, 10)
    [] profile = "balanced" -> Zero
    [] profile = "risky"    -> Rat(7, 10)
    [] OTHER                -> Zero

adjustedBy(probabilities, riskFactor) ==
  Triple(adjustProbabilityForRisk(probabilities.home, riskFactor),
         adjustProbabilityForRisk(probabilities.draw, riskFactor),
         adjustProbabilityForRisk(probabilities.away, riskFactor))

adjustMatchProbabilities(probabilities, riskProfile) ==
  scaleBy(adjustedBy(probabilities, getRiskFactor(riskProfile)),
          TripleSum(adjustedBy(probabilities, getRiskFactor(riskProfile))))

\* probability triples on a grid of twentieths, each summing to 1
ProbabilityTriples ==
  {Triple(Rat(p[1], 20), Rat(p[2], 20), Rat(20 - p[1] - p[2], 20)) :
     p \in {q \in (0..20) \X (0..20) : q[1] + q[2] <= 20}}

AdjustRequests ==
  [probabilities : ProbabilityTriples, riskProfile : RiskProfiles \cup {"extreme"}, result : {None}]

AdjustMatch ==
  /\ adj # None /\ adj.result = None
  /\ adj' = [adj EXCEPT !.result = adjustMatchProbabilities(adj.probabilities, adj.riskProfile)]
  /\ UNCHANGED <<oddsVars, kellyVars, simVars, apiVars, genVars, rowsApi, calc, pay, sel, boot, hist>>

NextAdjust == AdjustMatch

-----------------------------------------------------------------------------
(* Row generator and POST /api/generate-rows (realStryktipsetAPI.ts, part_000) *)

\* an optional number of RowFilters is a set: {} when undefined, {n} when given
NoFilters ==
  [minDraws |-> {}, maxDraws |-> {}, minAwayWins |-> {}, maxAwayWins |-> {},
   maxFavorites |-> {}, maxOddsBelow |-> {}, personalBiases |-> <<>>]

\* filters a request carries; the last one cannot be met by a two-match row
FilterValues ==
  { NoFilters,
    [NoFilters EXCEPT !.maxDraws = {0}, !.maxAwayWins = {1}],
    [NoFilters EXCEPT !.minAwayWins = {1}, !.maxFavorites = {0}, !.maxOddsBelow = {Int2Rat(3)}],
    [NoFilters EXCEPT !.minDraws = {1},
                      !.personalBiases = <<[matchId |-> 2, outcome |-> "X"],
                                           [matchId |-> 2, outcome |-> "1"]>>],
    [NoFilters EXCEPT !.minDraws = {3}] }

Strategies == {"weighted-random", "ev-based", "multi-row-coverage"}

NumRowsValues == {0, 1, 2, 21}

\* the slates the handler fetches
RowSlates ==
  { <<withId(GenPool[1], 1), withId(GenPool[3], 2)>>, <<withId(GenPool[2], 1)>> }

RowConfigs ==
  [riskProfile : RiskProfiles \cup {NoString, "extreme"}, filters : FilterValues,
   numRows : NumRowsValues, strategy : Strategies]

\* what GET /api/stryktipset answers a request with: a slate, or a document
\* without matches; several rows are asked of the one-match slate only
RowDocuments(config) ==
  {[hasMatches |-> TRUE, matches |-> m] :
     m \in {slate \in RowSlates : config.numRows > 1 => Len(slate) = 1}}
    \cup {[hasMatches |-> FALSE, matches |-> <<>>]}

\* personalBiases.find(b => b.matchId === match.matchId): the outcome of the first
\* bias for the match, NoString when there is none
forcedOutcome(biases, matchId) ==
  IF \A k \in 1..Len(biases) : biases[k].matchId # matchId THEN NoString
  ELSE biases[CHOOSE k \in 1..Len(biases) :
                /\ biases[k].matchId = matchId
                /\ \A j \in 1..(k - 1) : biases[j].matchId # matchId].outcome

\* the outcome of highest expected value, or a weighted draw when the first
\* random number is below randomnessFactor
selectEVBasedOutcome(odds, probabilities, randomnessFactor, r1, r2) ==
  IF RLt(r1, randomnessFactor) THEN selectWeightedRandomOutcome(probabilities, r2)
  ELSE IF /\ RLe(expectedValues(odds, probabilities).draw, expectedValues(odds, probabilities).home)
          /\ RLe(expectedValues(odds, probabilities).away, expectedValues(odds, probabilities).home)
         THEN "1"
  ELSE IF RLe(expectedValues(odds, probabilities).away, expectedValues(odds, probabilities).draw)
         THEN "X"
  ELSE "2"

\* the switch on config.strategy, with the probabilities already adjusted
selectByStrategy(strategy, odds, adjustedProbs, r1, r2) ==
  IF strategy = "ev-based"
    THEN selectEVBasedOutcome(odds, adjustedProbs, Rat(15, 100), r1, r2)
    ELSE selectWeightedRandomOutcome(adjustedProbs, r1)

\* the body of the loop over biasedMatches
outcomeFor(match, config, r1, r2) ==
  IF forcedOutcome(config.filters.personalBiases, match.matchId) # NoString
    THEN forcedOutcome(config.filters.personalBiases, match.matchId)
    ELSE selectByStrategy(config.strategy, match.odds,
                          adjustMatchProbabilities(match.probabilities, config.riskProfile),
                          r1, r2)

\* values Math.random() is taken to return in generateRow: odd sixteenths.  A
\* double holds them exactly, none of them equals a threshold a draw is compared
\* with, and for every match of RowSlates and every risk profile each of the
\* outcomes 1, X and 2 is the pick for at least one of them
RowSamples == {Rat(k, 16) : k \in {1, 3, 5, 7, 9, 11, 13, 15}}

\* the random numbers one match may consume: one, and for ev-based a second one
\* when the first is below the randomness factor 0.15
drawsFor(strategy) ==
  IF strategy = "ev-based"
    THEN {d \in RowSamples \X (RowSamples \cup {Zero}) :
            RLt(d[1], Rat(15, 100)) = (d[2] # Zero)}
    ELSE RowSamples \X {Zero}

countOf(outcomes, o) == Cardinality({i \in 1..Len(outcomes) : outcomes[i] = o})

\* picks whose odds are below the threshold
favoritesCount(outcomes, matches, threshold) ==
  Cardinality({i \in 1..Len(outcomes) : RLt(Field(matches[i].odds, outcomes[i]), threshold)})

\* the validation with the two upper limits on draws and away wins left out
validateRowAgainstFilters_lowerOnly(outcomes, matches, filters) ==
  /\ \A n \in filters.minDraws : ~(countOf(outcomes, "X") < n)
  /\ \A n \in filters.minAwayWins : ~(countOf(outcomes, "2") < n)
  /\ \A t \in filters.maxOddsBelow : \A n \in filters.maxFavorites :
       ~(favoritesCount(outcomes, matches, t) > n)

validateRowAgainstFilters(outcomes, matches, filters) ==
  /\ \A n \in filters.minDraws : ~(countOf(outcomes, "X") < n)
  /\ \A n \in filters.maxDraws : ~(countOf(outcomes, "X") > n)
  /\ \A n \in filters.minAwayWins : ~(countOf(outcomes, "2") < n)
  /\ \A n \in filters.maxAwayWins : ~(countOf(outcomes, "2") > n)
  /\ \A t \in filters.maxOddsBelow : \A n \in filters.maxFavorites :
       ~(favoritesCount(outcomes, matches, t) > n)

RECURSIVE calculateExpectedCorrect(_, _)
calculateExpectedCorrect(outcomes, matches) ==
  IF outcomes = <<>> THEN Zero
  ELSE RAdd(calculateExpectedCorrect(SubSeq(outcomes, 1, Len(outcomes) - 1), matches),
            Field(matches[Len(outcomes)].probabilities, outcomes[Len(outcomes)]))

\* the thresholds of the row generator's estimator taken as strict ones
rowExpectedPayout_strict(expectedCorrect) ==
  IF RLt(Int2Rat(13), expectedCorrect) THEN 50000
  ELSE IF RLt(Int2Rat(12), expectedCorrect) THEN 5000
  ELSE IF RLt(Int2Rat(11), expectedCorrect) THEN 500
  ELSE IF RLt(Int2Rat(10), expectedCorrect) THEN 50
  ELSE 0

\* calculateExpectedPayout of the row generator: a step function of the
\* expected number of correct picks
rowExpectedPayout(expectedCorrect) ==
  IF RLe(Int2Rat(13), expectedCorrect) THEN 50000
  ELSE IF RLe(Int2Rat(12), expectedCorrect) THEN 5000
  ELSE IF RLe(Int2Rat(11), expectedCorrect) THEN 500
  ELSE IF RLe(Int2Rat(10), expectedCorrect) THEN 50
  ELSE 0

generatedRow(outcomes, matches, config) ==
  [outcomes |-> outcomes,
   expectedCorrect |-> calculateExpectedCorrect(outcomes, matches),
   expectedPayout |-> rowExpectedPayout(calculateExpectedCorrect(outcomes, matches)),
   riskProfile |-> config.riskProfile]

\* the outcomes generateRow builds from the random numbers draws[i]
rowOutcomes(matches, config, draws) ==
  [i \in 1..Len(matches) |-> outcomeFor(matches[i], config, draws[i][1], draws[i][2])]

\* the duplicate test comparing the outcome arrays by identity: a new array is
\* identical to none of the old ones
isDuplicate_byIdentity(rowList, outcomes) == FALSE

isDuplicate(rowList, outcomes) == \E k \in 1..Len(rowList) : rowList[k].outcomes = outcomes

\* rows after one pass of the retry loop: the row is pushed when generateRow
\* returns one and it repeats no earlier row
rowsAfterAttempt(rowList, outcomes, matches, config) ==
  IF validateRowAgainstFilters(outcomes, matches, config.filters) /\ ~isDuplicate(rowList, outcomes)
    THEN Append(rowList, generatedRow(outcomes, matches, config))
    ELSE rowList

rowsError(status, error) ==
  [status |-> status, success |-> FALSE, error |-> error, rows |-> <<>>,
   generated |-> 0, requested |-> 0]

rowsSuccess(rowList, config) ==
  [status |-> 200, success |-> TRUE, error |-> NoString, rows |-> rowList,
   generated |-> Len(rowList), requested |-> config.numRows]

\* the handler from matchesData on, up to the first pass of the loop of
\* generateMultipleRows: the state it leaves; matches.map of undefined throws in
\* the first call of generateRow
handled(config, doc) ==
  IF config.riskProfile = NoString \/ config.riskProfile \notin RiskProfiles
    THEN [pc |-> "done", config |-> config, matches |-> doc.matches, invoked |-> FALSE,
          rows |-> <<>>, attempts |-> 0,
          response |-> rowsError(400, "Invalid risk profile")]
  ELSE IF config.numRows = 0 \/ config.numRows < 1 \/ config.numRows > 20
    THEN [pc |-> "done", config |-> config, matches |-> doc.matches, invoked |-> FALSE,
          rows |-> <<>>, attempts |-> 0,
          response |-> rowsError(400, "Number of rows must be between 1 and 20")]
  ELSE IF ~doc.hasMatches
    THEN [pc |-> "done", config |-> config, matches |-> doc.matches, invoked |-> TRUE,
          rows |-> <<>>, attempts |-> 1,
          response |-> rowsError(500, "Internal server error")]
  ELSE [pc |-> "generate", config |-> config, matches |-> doc.matches, invoked |-> TRUE,
        rows |-> <<>>, attempts |-> 0, response |-> None]

\* the catch branch of the handler
rowsFailed(state) ==
  [state EXCEPT !.pc = "done", !.response = rowsError(500, "Internal server error")]

\* POST /api/generate-rows: the handler is entered and waits for request.json()
PostGenerateRows ==
  /\ rowsApi = None
  /\ rowsApi' = [pc |-> "body", config |-> None, matches |-> <<>>, invoked |-> FALSE,
                 rows |-> <<>>, attempts |-> 0, response |-> None]
  /\ UNCHANGED <<adj, calc, pay, sel, boot, hist>>

\* request.json() settles: with the body, or rejected when the body is not JSON
GenerateRowsBody ==
  /\ rowsApi # None /\ rowsApi.pc = "body"
  /\ \/ \E config \in RowConfigs :
          rowsApi' = [rowsApi EXCEPT !.pc = "fetch", !.config = config]
     \/ rowsApi' = rowsFailed(rowsApi)
  /\ UNCHANGED <<adj, calc, pay, sel, boot, hist>>

\* fetch('/api/stryktipset') settles: with a response, or rejected
GenerateRowsFetch ==
  /\ rowsApi # None /\ rowsApi.pc = "fetch"
  /\ \/ rowsApi' = [rowsApi EXCEPT !.pc = "document"]
     \/ rowsApi' = rowsFailed(rowsApi)
  /\ UNCHANGED <<adj, calc, pay, sel, boot, hist>>

\* matchesResponse.json() settles; with a document the config is validated
GenerateRowsMatches ==
  /\ rowsApi # None /\ rowsApi.pc = "document"
  /\ \/ \E doc \in RowDocuments(rowsApi.config) : rowsApi' = handled(rowsApi.config, doc)
     \/ rowsApi' = rowsFailed(rowsApi)
  /\ UNCHANGED <<adj, calc, pay, sel, boot, hist>>

\* one pass of the while loop of generateMultipleRows
Attempt ==
  /\ rowsApi # None /\ rowsApi.pc = "generate"
  /\ Len(rowsApi.rows) < rowsApi.config.numRows
  /\ rowsApi.attempts < rowsApi.config.numRows * 10
  /\ \E draws \in [1..Len(rowsApi.matches) -> drawsFor(rowsApi.config.strategy)] :
       rowsApi' = [rowsApi EXCEPT
                     !.attempts = @ + 1,
                     !.rows = rowsAfterAttempt(@, rowOutcomes(rowsApi.matches, rowsApi.config, draws),
                                               rowsApi.matches, rowsApi.config)]
  /\ UNCHANGED <<adj, calc, pay, sel, boot, hist>>

\* generateMultipleRows returns and the handler answers
ReturnRows ==
  /\ rowsApi # None /\ rowsApi.pc = "generate"
  /\ ~(/\ Len(rowsApi.rows) < rowsApi.config.numRows
       /\ rowsApi.attempts < rowsApi.config.numRows * 10)
  /\ rowsApi' = [rowsApi EXCEPT
                   !.pc = "done",
                   !.response =
                     IF Len(rowsApi.rows) = 0
                       THEN rowsError(400, "Could not generate any rows that meet the specified criteria. Try relaxing your filters.")
                       ELSE rowsSuccess(rowsApi.rows, rowsApi.config)]
  /\ UNCHANGED <<adj, calc, pay, sel, boot, hist>>

NextRows ==
  \/ PostGenerateRows /\ UNCHANGED <<oddsVars, kellyVars, simVars, apiVars, genVars>>
  \/ GenerateRowsBody /\ UNCHANGED <<oddsVars, kellyVars, simVars, apiVars, genVars>>
  \/ GenerateRowsFetch /\ UNCHANGED <<oddsVars, kellyVars, simVars, apiVars, genVars>>
  \/ GenerateRowsMatches /\ UNCHANGED <<oddsVars, kellyVars, simVars, apiVars, genVars>>
  \/ Attempt /\ UNCHANGED <<oddsVars, kellyVars, simVars, apiVars, genVars>>
  \/ ReturnRows /\ UNCHANGED <<oddsVars, kellyVars, simVars, apiVars, genVars>>

-----------------------------------------------------------------------------
(* StryktipsetSystemCalculator (svenskaSpelApi.ts)                          *)

\* generateAllValidSystems(maxRows: number = 1000)
DefaultMaxRows == 1000

\* no `continue` of the loop body is taken
isPushed(halves, fulls, singles, maxRows) ==
  /\ halves + fulls + singles # 0
  /\ ~(halves + fulls + singles > 13)
  /\ ~(calculateRows(halves, fulls, singles) = Zero
        \/ RLt(Int2Rat(maxRows), calculateRows(halves, fulls, singles)))
  /\ ~(halves = 0 /\ fulls = 0 /\ singles > 1)

\* the innermost loop: singles from s to 13
RECURSIVE singlesLoop(_, _, _, _)
singlesLoop(halves, fulls, s, maxRows) ==
  IF s > 13 THEN <<>>
  ELSE (IF isPushed(halves, fulls, s, maxRows) THEN <<systemResult(halves, fulls, s)>> ELSE <<>>)
         \o singlesLoop(halves, fulls, s + 1, maxRows)

\* the entries of a list at the positions in kept, in list order
selectAt(list, kept) ==
  [k \in 1..Cardinality(kept) |->
     list[CHOOSE i \in kept : Cardinality({j \in kept : j <= i}) = k]]

\* systems.filter((system, index, arr) => arr.findIndex(same totalRows) === index)
uniqueSystems(systems) ==
  selectAt(systems, {i \in 1..Len(systems) :
                      \A j \in 1..(i - 1) : systems[j].totalRows # systems[i].totalRows})

\* x placed after the entries of an ascending list that are not greater than it
RECURSIVE insertByRows(_, _)
insertByRows(sorted, x) ==
  IF sorted = <<>> THEN <<x>>
  ELSE IF RLt(x.totalRows, sorted[1].totalRows) THEN <<x>> \o sorted
  ELSE <<sorted[1]>> \o insertByRows(Tail(sorted), x)

\* sort((a, b) => a.totalRows - b.totalRows), stable
RECURSIVE sortByRows(_)
sortByRows(systems) ==
  IF systems = <<>> THEN <<>>
  ELSE insertByRows(sortByRows(SubSeq(systems, 1, Len(systems) - 1)), systems[Len(systems)])

\* the loop of findClosestSystem over allSystems from position i
RECURSIVE closestFrom(_, _, _, _)
closestFrom(allSystems, i, closest, targetRows) ==
  IF i > Len(allSystems) THEN closest
  ELSE IF RLt(RAbs(RSub(allSystems[i].totalRows, Int2Rat(targetRows))),
              RAbs(RSub(closest.totalRows, Int2Rat(targetRows))))
    THEN closestFrom(allSystems, i + 1, allSystems[i], targetRows)
  ELSE closestFrom(allSystems, i + 1, closest, targetRows)

findClosestSystem(allSystems, targetRows) ==
  IF \E i \in 1..Len(allSystems) : allSystems[i].totalRows = Int2Rat(targetRows)
    THEN allSystems[CHOOSE i \in 1..Len(allSystems) :
                      /\ allSystems[i].totalRows = Int2Rat(targetRows)
                      /\ \A j \in 1..(i - 1) : allSystems[j].totalRows # Int2Rat(targetRows)]
    ELSE closestFrom(allSystems, 1, allSystems[1], targetRows)

\* calls of the calculator: all systems up to maxRows, or the system closest to a target
CalcCalls ==
  [op : {"generateAllValidSystems"}, maxRows : {1, 10, 100, DefaultMaxRows}, targetRows : {0}]
    \cup [op : {"findClosestSystem"}, maxRows : {DefaultMaxRows},
          targetRows : {1, 5, 96, 100, 1000, 5000}]

\* the call is made: the triple loop starts
CalcEnter ==
  /\ calc = None
  /\ \E call \in CalcCalls :
       calc' = [pc |-> "loop", call |-> call, halves |-> 0, fulls |-> 0, systems |-> <<>>,
                result |-> <<>>]
  /\ UNCHANGED <<adj, rowsApi, pay, sel, boot, hist>>

\* one pass of the loop over fulls, with the whole loop over singles inside it
CalcLoop ==
  /\ calc # None /\ calc.pc = "loop" /\ calc.halves <= 10
  /\ calc' = [calc EXCEPT
                !.systems = @ \o singlesLoop(calc.halves, calc.fulls, 0, calc.call.maxRows),
                !.fulls = IF calc.fulls < 6 THEN calc.fulls + 1 ELSE 0,
                !.halves = IF calc.fulls < 6 THEN calc.halves ELSE calc.halves + 1]
  /\ UNCHANGED <<adj, rowsApi, pay, sel, boot, hist>>

\* after the loops: duplicates removed, sorted, and for findClosestSystem the search
CalcReturn ==
  /\ calc # None /\ calc.pc = "loop" /\ calc.halves > 10
  /\ calc' = [calc EXCEPT
                !.pc = "done",
                !.result =
                  IF calc.call.op = "generateAllValidSystems"
                    THEN sortByRows(uniqueSystems(calc.systems))
                    ELSE <<findClosestSystem(sortByRows(uniqueSystems(calc.systems)),
                                             calc.call.targetRows)>>]
  /\ UNCHANGED <<adj, rowsApi, pay, sel, boot, hist>>

NextCalc ==
  \/ CalcEnter /\ UNCHANGED <<oddsVars, kellyVars, simVars, apiVars, genVars>>
  \/ CalcLoop /\ UNCHANGED <<oddsVars, kellyVars, simVars, apiVars, genVars>>
  \/ CalcReturn /\ UNCHANGED <<oddsVars, kellyVars, simVars, apiVars, genVars>>

-----------------------------------------------------------------------------
(* The three payout estimators side by side                                 *)

\* what the simulation's payout table yields for one trial with this many
\* correct picks: the buckets of that trial, divided by 1, times the table
tablePayout(correctCount) ==
  calculateExpectedPayout(
    toProbabilities(countAtLeast(countExact(ZeroResults, correctCount), correctCount), 1))

\* what the bootstrap loop of simulateWithConfidenceIntervals adds to
\* samplePayout for one matchday
samplePayoutOf(correctCount) ==
  IF correctCount >= 13 THEN 50000
  ELSE IF correctCount >= 12 THEN 5000
  ELSE IF correctCount >= 11 THEN 500
  ELSE IF correctCount >= 10 THEN 50
  ELSE 0

\* expected numbers of correct picks: 0 to 14 in steps of a half
ExpectedCorrectValues == {Rat(n, 2) : n \in 0..28}

\* the row generator's estimator on two expected counts, low <= high
EstimatePair ==
  /\ pay = None
  /\ \E low \in ExpectedCorrectValues, high \in ExpectedCorrectValues :
       /\ RLe(low, high)
       /\ pay' = [kind |-> "pair", low |-> low, high |-> high,
                  rowLow |-> rowExpectedPayout(low), rowHigh |-> rowExpectedPayout(high)]
  /\ UNCHANGED <<adj, rowsApi, calc, sel, boot, hist>>

\* the three estimators on one integer count of correct picks
EstimateCount ==
  /\ pay = None
  /\ \E correctCount \in 0..NumMatches :
       pay' = [kind |-> "count", correctCount |-> correctCount,
               row |-> rowExpectedPayout(Int2Rat(correctCount)),
               table |-> tablePayout(correctCount),
               bootstrap |-> samplePayoutOf(correctCount)]
  /\ UNCHANGED <<adj, rowsApi, calc, sel, boot, hist>>

NextPayout ==
  \/ EstimatePair /\ UNCHANGED <<oddsVars, kellyVars, simVars, apiVars, genVars>>
  \/ EstimateCount /\ UNCHANGED <<oddsVars, kellyVars, simVars, apiVars, genVars>>

-----------------------------------------------------------------------------
(* Coverage selection for one match under the safe profile                  *)
(* (systemGenerator.ts, footballIntelligence.ts)                            *)

\* tioTidningarsTips of a match: absent, empty, unanimous, split, leaning
ExpertTipsValues ==
  {None, Counts(0, 0, 0), Counts(10, 0, 0), Counts(3, 3, 4), Counts(7, 2, 1)}

SelectRequests ==
  [pc : {"input"}, probabilities : ProbabilityTriples, expertTips : ExpertTipsValues,
   half : {NoString}, single : {NoString}]

\* the fields of analyzeMatch(match) that the safe branches read
safeAnalysis(probabilities, expertTips) ==
  [match |-> [probabilities |-> probabilities],
   scores |-> [expertConsensus |-> calculateExpertConsensus(expertTips)],
   recommendations |->
     [safePick |-> getSafePick(probabilities, calculateExpertConsensus(expertTips))]]

\* selectIntelligentHalf and selectIntelligentSingle for one match, profile safe
\* (the safe branches draw no random number)
SelectSafe ==
  /\ sel # None /\ sel.pc = "input"
  /\ sel' = [sel EXCEPT
               !.pc = "done",
               !.half = selectIntelligentHalf(
                          safeAnalysis(sel.probabilities, sel.expertTips), "safe", Zero, Zero),
               !.single = selectIntelligentSingle(
                            safeAnalysis(sel.probabilities, sel.expertTips), "safe", <<>>)]
  /\ UNCHANGED <<oddsVars, kellyVars, simVars, apiVars, genVars, adj, rowsApi, calc, pay,
                 boot, hist>>

NextSelect == SelectSafe

-----------------------------------------------------------------------------
(* simulateWithConfidenceIntervals: the percentile interval (odds.ts)       *)

\* confidenceLevel arguments; for each of them the double-precision products
\* alpha / 2 * 1000 and (1 - alpha / 2) * 1000 have the floor of the exact value
ConfidenceLevels ==
  {Rat(1, 1000), Rat(1, 4), Rat(1, 2), Rat(3, 4), Rat(95, 100), Rat(99, 100),
   Rat(999, 1000), One}

\* an array of numbers as runs of equal values, in the order they were pushed
Run(value, count) == [value |-> value, count |-> count]

RECURSIVE runLength(_)
runLength(runs) ==
  IF runs = <<>> THEN 0 ELSE runs[1].count + runLength(Tail(runs))

\* how many elements of the array are less than v / less than or equal to v
RECURSIVE countBelow(_, _, _)
countBelow(runs, v, orEqual) ==
  IF runs = <<>> THEN 0
  ELSE (IF RLt(runs[1].value, v) \/ (orEqual /\ runs[1].value = v) THEN runs[1].count ELSE 0)
       + countBelow(Tail(runs), v, orEqual)

\* array.sort((a, b) => a - b)[index]: {} when the index is outside the array
sortedAt(runs, index) ==
  {runs[k].value : k \in {j \in 1..Len(runs) :
                            /\ countBelow(runs, runs[j].value, FALSE) <= index
                            /\ index < countBelow(runs, runs[j].value, TRUE)}}

\* Math.floor(alpha / 2 * bootstrapSamples), alpha = 1 - confidenceLevel
lowerIndex(confidenceLevel) ==
  Floor(RMul(RDiv(RSub(One, confidenceLevel), Int2Rat(2)), Int2Rat(BootstrapSamples)))

\* Math.floor((1 - alpha / 2) * bootstrapSamples)
upperIndex(confidenceLevel) ==
  Floor(RMul(RSub(One, RDiv(RSub(One, confidenceLevel), Int2Rat(2))),
             Int2Rat(BootstrapSamples)))

\* the correctCount values simulateMatchday returns to the inner loop of one
\* replicate, as runs of equal values in the order of the loop: the same count on
\* all 1000 matchdays, one matchday in a payout bracket among matchdays of 6, and
\* two mixed replicates
ReplicateMatchdays ==
  {<<Run(c, BootstrapSize)>> : c \in 0..NumMatches}
    \cup {<<Run(c, 1), Run(6, BootstrapSize - 1)>> : c \in 10..NumMatches}
    \cup {<<Run(6, 400), Run(5, 300), Run(7, 300)>>,
          <<Run(10, 20), Run(6, 970), Run(11, 10)>>}

\* sampleCorrect after the inner loop
RECURSIVE sampleCorrect(_)
sampleCorrect(matchdays) ==
  IF matchdays = <<>> THEN 0
  ELSE matchdays[1].value * matchdays[1].count + sampleCorrect(Tail(matchdays))

\* samplePayout after the inner loop
RECURSIVE samplePayout(_)
samplePayout(matchdays) ==
  IF matchdays = <<>> THEN 0
  ELSE samplePayoutOf(matchdays[1].value) * matchdays[1].count + samplePayout(Tail(matchdays))

\* the replicates of the outer loop as runs of equal replicates, in the order of
\* the loop: all alike, the first one different, or three groups
ReplicateRuns ==
  {<<Run(m, BootstrapSamples)>> : m \in ReplicateMatchdays}
    \cup {<<Run(m1, 1), Run(m2, BootstrapSamples - 1)>> :
            m1 \in ReplicateMatchdays, m2 \in ReplicateMatchdays}
    \cup {<<Run(m1, 400), Run(m2, 350), Run(m3, 250)>> :
            m1 \in ReplicateMatchdays, m2 \in ReplicateMatchdays, m3 \in ReplicateMatchdays}

\* bootstrapResults.push(sampleCorrect / 1000) for every replicate
bootstrapResultsOf(replicates) ==
  [k \in 1..Len(replicates) |->
     Run(Rat(sampleCorrect(replicates[k].value), BootstrapSize), replicates[k].count)]

\* bootstrapPayouts.push(samplePayout / 1000) for every replicate
bootstrapPayoutsOf(replicates) ==
  [k \in 1..Len(replicates) |->
     Run(Rat(samplePayout(replicates[k].value), BootstrapSize), replicates[k].count)]

IntervalCalls ==
  [pc : {"call"}, confidenceLevel : ConfidenceLevels, bootstrapResults : {<<>>},
   bootstrapPayouts : {<<>>}, confidenceIntervals : {None}]

\* the bootstrap loop: 1000 replicates of 1000 matchdays each
Bootstrap ==
  /\ boot # None /\ boot.pc = "call"
  /\ \E replicates \in ReplicateRuns :
       boot' = [boot EXCEPT !.pc = "sampled",
                            !.bootstrapResults = bootstrapResultsOf(replicates),
                            !.bootstrapPayouts = bootstrapPayoutsOf(replicates)]
  /\ UNCHANGED <<oddsVars, kellyVars, simVars, apiVars, genVars, adj, rowsApi, calc, pay,
                 sel, hist>>

\* the two sorts and the reads at lowerIndex and upperIndex
ReportInterval ==
  /\ boot # None /\ boot.pc = "sampled"
  /\ boot' = [boot EXCEPT
                !.pc = "done",
                !.confidenceIntervals =
                   [lowerIndex |-> lowerIndex(boot.confidenceLevel),
                    upperIndex |-> upperIndex(boot.confidenceLevel),
                    averageCorrect |->
                      [lower |-> sortedAt(boot.bootstrapResults,
                                          lowerIndex(boot.confidenceLevel)),
                       upper |-> sortedAt(boot.bootstrapResults,
                                          upperIndex(boot.confidenceLevel))],
                    expectedPayout |->
                      [lower |-> sortedAt(boot.bootstrapPayouts,
                                          lowerIndex(boot.confidenceLevel)),
                       upper |-> sortedAt(boot.bootstrapPayouts,
                                          upperIndex(boot.confidenceLevel))]]]
  /\ UNCHANGED <<oddsVars, kellyVars, simVars, apiVars, genVars, adj, rowsApi, calc, pay,
                 sel, hist>>

NextInterval == Bootstrap \/ ReportInterval

-----------------------------------------------------------------------------
(* SystemHistoryManager (systemHistory.ts) and the MockDataGenerator        *)
(* functions that write the same localStorage key (realStryktipsetAPI.ts).  *)
(* Time is counted in hours; crypto.randomUUID() yields an unused id.       *)

MAX_SYSTEMS == 1000

\* most calls of saveGeneratedSystem and of the MockDataGenerator in one run
MaxWrites == 2

HoursPerDay == 24

\* the id crypto.randomUUID() returns at the n-th save
uuid(n) == "uuid-" \o ToString(n)

\* `mock-match-${i + 1}` for the 0-based index i = n - 1
mockMatchId(n) == "mock-match-" \o ToString(n)

\* generated systems handed to saveGeneratedSystem: a two-match system, and a
\* 13-match system of ten halves and three singles
GeneratedSystems ==
  { [riskProfile |-> "safe", configuration |-> [totalRows |-> 2, cost |-> 2],
     matches |-> <<[matchId |-> "1", systemOutcome |-> "1"],
                   [matchId |-> "2", systemOutcome |-> "X2"]>>],
    [riskProfile |-> "risky", configuration |-> [totalRows |-> 1024, cost |-> 1024],
     matches |-> [i \in 1..NumMatches |->
                    [matchId |-> ToString(i),
                     systemOutcome |-> IF i <= 10 THEN "1X" ELSE "1"]]] }

MatchResult(matchId, actualOutcome) == [matchId |-> matchId, actualOutcome |-> actualOutcome]

\* matchResults arrays: one result; both matches of the small system; the first
\* match reported twice; all 13 matches won by the home side; the 13 matches of
\* the mock systems won by the home side
MatchResultLists ==
  { <<MatchResult("1", "1")>>,
    <<MatchResult("1", "1"), MatchResult("2", "1")>>,
    <<MatchResult("1", "1"), MatchResult("1", "X")>>,
    [i \in 1..NumMatches |-> MatchResult(ToString(i), "1")],
    [i \in 1..NumMatches |-> MatchResult(mockMatchId(i), "1")] }

\* the SavedSystem saveGeneratedSystem builds; optional fields are sets, {} when
\* undefined
savedSystem(generatedSystem, id, timestamp) ==
  [id |-> id, timestamp |-> timestamp, riskProfile |-> generatedSystem.riskProfile,
   configuration |-> generatedSystem.configuration, matches |-> generatedSystem.matches,
   status |-> "pending", actualResults |-> {}, profitLoss |-> {}, roi |-> {},
   winPercentage |-> {}, correctPredictions |-> {}]

\* push in place of unshift: the new system goes to the end of the list
addSystemToHistory_push(systems, system) ==
  IF Len(systems) + 1 > MAX_SYSTEMS
    THEN SubSeq(Append(systems, system), 1, MAX_SYSTEMS)
    ELSE Append(systems, system)

\* unshift, then splice(MAX_SYSTEMS) when the list is too long
addSystemToHistory(systems, system) ==
  IF Len(systems) + 1 > MAX_SYSTEMS
    THEN SubSeq(<<system>> \o systems, 1, MAX_SYSTEMS)
    ELSE <<system>> \o systems

\* what localStorage holds after saveAllSystems(systems): the new list when
\* setItem returns, the list stored before when setItem throws (the error is
\* logged and swallowed) or when there is no window
saveAllSystems(storedBefore, systems, written) == IF written THEN systems ELSE storedBefore

getSystemsByStatus(systems, status) == SelectSeq(systems, LAMBDA s : s.status = status)

\* the hours between oneWeekAgo and now: setDate(getDate() - 7) goes back seven
\* days of the local calendar, which is a week of 168 hours, or up to two hours
\* less or more when the clocks of the time zone changed in between (one hour
\* in most zones, two in Antarctica/Troll; a change of half an hour selects, of
\* systems saved at whole hours, the same ones as the next whole hour)
WeekHours == (7 * HoursPerDay - 2)..(7 * HoursPerDay + 2)

\* .filter(system => new Date(system.timestamp) > oneWeekAgo)
savedAfter(systems, oneWeekAgo) == SelectSeq(systems, LAMBDA s : s.timestamp > oneWeekAgo)

\* pending systems with new Date(timestamp) > oneWeekAgo
getPendingSystems(systems, now, weekHours) ==
  savedAfter(getSystemsByStatus(systems, "pending"), now - weekHours)

checkOutcomeCorrect(systemOutcome, actualOutcome) ==
  CASE systemOutcome = "1" -> actualOutcome = "1"
    [] systemOutcome = "X" -> actualOutcome = "X"
    [] systemOutcome = "2" -> actualOutcome = "2"
    [] systemOutcome = "1X" -> actualOutcome = "1" \/ actualOutcome = "X"
    [] systemOutcome = "12" -> actualOutcome = "1" \/ actualOutcome = "2"
    [] systemOutcome = "X2" -> actualOutcome = "X" \/ actualOutcome = "2"
    [] systemOutcome = "1X2" -> TRUE
    [] OTHER -> FALSE

\* payoutMultipliers[correctPredictions] || 0, times the cost
calculateActualPayout(system, correctPredictions) ==
  system.configuration.cost
    * (CASE correctPredictions = 10 -> 10
         [] correctPredictions = 11 -> 50
         [] correctPredictions = 12 -> 500
         [] correctPredictions = 13 -> 5000
         [] OTHER -> 0)

\* matchResults.filter(r => systemMatchIds.includes(r.matchId))
availableResultsOf(system, matchResults) ==
  SelectSeq(matchResults,
            LAMBDA r : \E i \in 1..Len(system.matches) : system.matches[i].matchId = r.matchId)

\* availableResults.find(r => r.matchId === matchId): {} when there is none
findResult(availableResults, matchId) ==
  {availableResults[k] : k \in {j \in 1..Len(availableResults) :
                                  /\ availableResults[j].matchId = matchId
                                  /\ \A a \in 1..(j - 1) :
                                       availableResults[a].matchId # matchId}}

\* the loop over system.matches
correctPredictionsOf(system, availableResults) ==
  Cardinality({i \in 1..Len(system.matches) :
                 \E r \in findResult(availableResults, system.matches[i].matchId) :
                   checkOutcomeCorrect(system.matches[i].systemOutcome, r.actualOutcome)})

profitLossOf(system, correctPredictions) ==
  IF correctPredictions >= 10
    THEN calculateActualPayout(system, correctPredictions) - system.configuration.cost
    ELSE 0 - system.configuration.cost

\* the Partial<SavedSystem> of a system whose results are in, None otherwise
calculateSystemResults(system, matchResults) ==
  IF Len(availableResultsOf(system, matchResults)) # Len(system.matches) THEN None
  ELSE [status |-> "completed",
        actualResults |-> {availableResultsOf(system, matchResults)},
        profitLoss |->
          {profitLossOf(system,
                        correctPredictionsOf(system, availableResultsOf(system, matchResults)))},
        roi |->
          {RMul(Rat(profitLossOf(system,
                                 correctPredictionsOf(system,
                                                      availableResultsOf(system, matchResults))),
                    system.configuration.cost), Int2Rat(100))},
        winPercentage |->
          {RMul(Rat(correctPredictionsOf(system, availableResultsOf(system, matchResults)),
                    Len(system.matches)), Int2Rat(100))},
        correctPredictions |->
          {correctPredictionsOf(system, availableResultsOf(system, matchResults))}]

\* systems[systemIndex] = {...systems[systemIndex], ...results}
mergedWith(system, results) ==
  [system EXCEPT !.status = results.status, !.actualResults = results.actualResults,
                 !.profitLoss = results.profitLoss, !.roi = results.roi,
                 !.winPercentage = results.winPercentage,
                 !.correctPredictions = results.correctPredictions]

\* the update of the first system with this id, if any, and its write
updateSystemWithResults(systems, systemId, results, written) ==
  IF \A k \in 1..Len(systems) : systems[k].id # systemId THEN systems
  ELSE saveAllSystems(
         systems,
         [systems EXCEPT
            ![CHOOSE k \in 1..Len(systems) :
                /\ systems[k].id = systemId
                /\ \A j \in 1..(k - 1) : systems[j].id # systemId] = mergedWith(@, results)],
         written)

\* the loop of processMatchResults over pendingSystems from position k on; the
\* write of the update for pendingSystems[j] throws for the j in failed
RECURSIVE processFrom(_, _, _, _, _)
processFrom(systems, pendingSystems, k, matchResults, failed) ==
  IF k > Len(pendingSystems) THEN systems
  ELSE processFrom(
         IF calculateSystemResults(pendingSystems[k], matchResults) = None THEN systems
         ELSE updateSystemWithResults(systems, pendingSystems[k].id,
                                      calculateSystemResults(pendingSystems[k], matchResults),
                                      k \notin failed),
         pendingSystems, k + 1, matchResults, failed)

\* processMatchResults(matchResults) on the stored systems, pendingSystems being
\* what getPendingSystems() returned at its start
processMatchResults(systems, pendingSystems, matchResults, failed) ==
  processFrom(systems, pendingSystems, 1, matchResults, failed)

\* positions in pendingSystems of the systems processMatchResults writes
writersOf(pendingSystems, matchResults) ==
  {k \in 1..Len(pendingSystems) :
     calculateSystemResults(pendingSystems[k], matchResults) # None}

\* a stored history of MAX_SYSTEMS - 1 systems saved between 8 and 17 days ago,
\* newest first, every second one completed
storedSystem(k) ==
  [id |-> "stored-" \o ToString(k), timestamp |-> 0 - (8 + (k \div 100)) * HoursPerDay,
   riskProfile |-> "balanced",
   configuration |-> [totalRows |-> 1, cost |-> 1],
   matches |-> <<[matchId |-> "1", systemOutcome |-> "1"]>>,
   status |-> IF k % 2 = 0 THEN "completed" ELSE "pending",
   actualResults |-> IF k % 2 = 0 THEN {<<MatchResult("1", "2")>>} ELSE {},
   profitLoss |-> IF k % 2 = 0 THEN {-1} ELSE {},
   roi |-> IF k % 2 = 0 THEN {Int2Rat(-100)} ELSE {},
   winPercentage |-> IF k % 2 = 0 THEN {Zero} ELSE {},
   correctPredictions |-> IF k % 2 = 0 THEN {0} ELSE {}]

StoredHistories == {<<>>, [k \in 1..(MAX_SYSTEMS - 1) |-> storedSystem(k)]}

\* the outcomes array of generateMockMatches
MockOutcomes == <<"1", "X", "2", "1X", "12", "X2">>

\* what Math.random() returns during one call of a MockDataGenerator function:
\* the values of a tape in turn, starting over at its end.  With this tape every
\* entry of MockOutcomes is the systemOutcome of some mock match and each of 1, X
\* and 2 is the actualOutcome of some mock result.
MockTapes ==
  {<<Rat(5, 16), Rat(9, 16), Rat(7, 16), Rat(1, 16), Rat(13, 16), Rat(1, 16), Rat(3, 16),
     Rat(11, 16), Rat(5, 16), Rat(9, 16), Rat(15, 16)>>}

\* generateMockMatches(count) when its first Math.random() call is call number
\* first: seven calls per match (odds, probabilities, systemOutcome), the
\* seventh picks the systemOutcome
generateMockMatches(count, tape, first) ==
  [i \in 1..count |->
     [matchId |-> mockMatchId(i),
      systemOutcome |->
        MockOutcomes[randomIndex(randomAt(tape, first + 7 * (i - 1) + 6),
                                 Len(MockOutcomes)) + 1]]]

\* actualOutcome of generateMockResults from the two scores
mockOutcome(homeScore, awayScore) ==
  IF homeScore > awayScore THEN "1" ELSE IF homeScore = awayScore THEN "X" ELSE "2"

\* generateMockResults(totalMatches, correctPredictions) when its first
\* Math.random() call is call number first: two calls per match, homeScore then
\* awayScore; correctPredictions is not read
generateMockResults(totalMatches, tape, first) ==
  [i \in 1..totalMatches |->
     MatchResult(mockMatchId(i),
                 mockOutcome(randomIndex(randomAt(tape, first + 2 * (i - 1)), 4),
                             randomIndex(randomAt(tape, first + 2 * (i - 1) + 1), 4)))]

\* Math.random() calls one mock completed system takes: generateMockMatches(13)
\* and generateMockResults(13, n)
CallsPerCompleted == 7 * NumMatches + 2 * NumMatches

mockCompleted(n, daysAgo, riskProfile, cost, profitLoss, roi, winPercentage, correct, tape, now) ==
  [id |-> "mock-system-" \o ToString(n), timestamp |-> now - daysAgo * HoursPerDay,
   riskProfile |-> riskProfile, configuration |-> [totalRows |-> cost, cost |-> cost],
   matches |-> generateMockMatches(NumMatches, tape, CallsPerCompleted * (n - 1) + 1),
   status |-> "completed",
   actualResults |-> {generateMockResults(NumMatches, tape,
                                          CallsPerCompleted * (n - 1) + 7 * NumMatches + 1)},
   profitLoss |-> {profitLoss}, roi |-> {roi}, winPercentage |-> {winPercentage},
   correctPredictions |-> {correct}]

\* the mockSystems array of generateMockCompletedSystems
mockSystems(tape, now) ==
  <<mockCompleted(1, 2, "balanced", 64, 432, Int2Rat(575), Rat(846, 10), 11, tape, now),
    mockCompleted(2, 3, "safe", 32, 288, Int2Rat(900), Rat(923, 10), 12, tape, now),
    mockCompleted(3, 4, "risky", 128, -128, Int2Rat(-100), Rat(692, 10), 9, tape, now),
    mockCompleted(4, 5, "balanced", 96, 144, Int2Rat(150), Rat(769, 10), 10, tape, now),
    mockCompleted(5, 6, "safe", 48, -48, Int2Rat(-100), Rat(615, 10), 8, tape, now)>>

mockPending(n, hoursAgo, riskProfile, cost, tape, now) ==
  [id |-> "mock-pending-" \o ToString(n), timestamp |-> now - hoursAgo,
   riskProfile |-> riskProfile, configuration |-> [totalRows |-> cost, cost |-> cost],
   matches |-> generateMockMatches(NumMatches, tape, 7 * NumMatches * (n - 1) + 1),
   status |-> "pending", actualResults |-> {}, profitLoss |-> {}, roi |-> {},
   winPercentage |-> {}, correctPredictions |-> {}]

\* the mockPendingSystems array of generateMockPendingSystems
mockPendingSystems(tape, now) ==
  <<mockPending(1, 3, "balanced", 64, tape, now), mockPending(2, 1, "safe", 32, tape, now)>>

NoCall == [op |-> "none", id |-> "", matchResults |-> <<>>, stored |-> FALSE]

\* saveGeneratedSystem(generatedSystem, originalOdds): the id is returned whether
\* or not the write of the history succeeds
SaveGeneratedSystem ==
  /\ hist # None /\ hist.lastCall = NoCall /\ hist.saves + hist.mocks < MaxWrites
  /\ \E generatedSystem \in GeneratedSystems, written \in BOOLEAN :
       hist' = [hist EXCEPT
                  !.systems = saveAllSystems(
                                @,
                                addSystemToHistory(
                                  @, savedSystem(generatedSystem, uuid(hist.saves + 1),
                                                 hist.now)),
                                written),
                  !.saves = @ + 1,
                  !.lastCall = [op |-> "save", id |-> uuid(hist.saves + 1),
                                matchResults |-> <<>>, stored |-> written]]
  /\ UNCHANGED <<oddsVars, kellyVars, simVars, apiVars, genVars, adj, rowsApi, calc, pay,
                 sel, boot>>

\* processMatchResults(matchResults), in a week of the local calendar that has
\* weekHours hours: pendingSystems is getPendingSystems(), the pending systems
\* saved after oneWeekAgo; every update is a write of its own that may fail
ProcessMatchResults ==
  /\ hist # None /\ hist.lastCall = NoCall
  /\ LET pending == getSystemsByStatus(hist.systems, "pending")
     IN \E pendingSystems \in {savedAfter(pending, hist.now - weekHours) :
                                  weekHours \in WeekHours} :
          \E matchResults \in MatchResultLists :
            \E failed \in SUBSET writersOf(pendingSystems, matchResults) :
              hist' = [hist EXCEPT
                         !.systems = processMatchResults(@, pendingSystems, matchResults,
                                                         failed),
                         !.lastCall = [op |-> "process", id |-> "",
                                       matchResults |-> matchResults, stored |-> FALSE]]
  /\ UNCHANGED <<oddsVars, kellyVars, simVars, apiVars, genVars, adj, rowsApi, calc, pay,
                 sel, boot>>

\* MockDataGenerator.generateMockCompletedSystems(): the stored history is
\* replaced by the five mock systems; a setItem that throws is not caught and
\* leaves the history as it was
GenerateMockCompletedSystems ==
  /\ hist # None /\ hist.lastCall = NoCall /\ hist.saves + hist.mocks < MaxWrites
  /\ \E tape \in MockTapes, written \in BOOLEAN :
       hist' = [hist EXCEPT
                  !.systems = IF written THEN mockSystems(tape, hist.now) ELSE @,
                  !.mocks = @ + 1,
                  !.lastCall = [op |-> "mockCompleted", id |-> "", matchResults |-> <<>>,
                                stored |-> written]]
  /\ UNCHANGED <<oddsVars, kellyVars, simVars, apiVars, genVars, adj, rowsApi, calc, pay,
                 sel, boot>>

\* MockDataGenerator.generateMockPendingSystems(): the two pending mock systems
\* are appended to the stored history, which is not cut to MAX_SYSTEMS
GenerateMockPendingSystems ==
  /\ hist # None /\ hist.lastCall = NoCall /\ hist.saves + hist.mocks < MaxWrites
  /\ \E tape \in MockTapes, written \in BOOLEAN :
       hist' = [hist EXCEPT
                  !.systems = IF written THEN @ \o mockPendingSystems(tape, hist.now) ELSE @,
                  !.mocks = @ + 1,
                  !.lastCall = [op |-> "mockPending", id |-> "", matchResults |-> <<>>,
                                stored |-> written]]
  /\ UNCHANGED <<oddsVars, kellyVars, simVars, apiVars, genVars, adj, rowsApi, calc, pay,
                 sel, boot>>

\* MockDataGenerator.clearMockData(): where there is a window, removeItem, after
\* which getAllSystems() returns []; where there is none, nothing is removed
ClearMockData ==
  /\ hist # None /\ hist.lastCall = NoCall /\ hist.saves + hist.mocks < MaxWrites
  /\ \E window \in BOOLEAN :
       hist' = [hist EXCEPT
                  !.systems = IF window THEN <<>> ELSE @,
                  !.mocks = @ + 1,
                  !.lastCall = [op |-> "clear", id |-> "", matchResults |-> <<>>,
                                stored |-> window]]
  /\ UNCHANGED <<oddsVars, kellyVars, simVars, apiVars, genVars, adj, rowsApi, calc, pay,
                 sel, boot>>

\* the call returns to its caller; the next call is made after that
ReturnToCaller ==
  /\ hist # None /\ hist.lastCall # NoCall
  /\ hist' = [hist EXCEPT !.lastCall = NoCall]
  /\ UNCHANGED <<oddsVars, kellyVars, simVars, apiVars, genVars, adj, rowsApi, calc, pay,
                 sel, boot>>

\* time passes between two calls: 168 hours, after which a system saved at the
\* earlier call is pending in the weeks longer than that and the younger mock
\* pending system, 169 hours old, in the longest only
Tick ==
  /\ hist # None /\ hist.lastCall = NoCall
  /\ \E hours \in {7 * HoursPerDay} :
       /\ hist.now + hours <= 7 * HoursPerDay
       /\ hist' = [hist EXCEPT !.now = @ + hours]
  /\ UNCHANGED <<oddsVars, kellyVars, simVars, apiVars, genVars, adj, rowsApi, calc, pay,
                 sel, boot>>

NextHistory ==
  \/ SaveGeneratedSystem
  \/ ProcessMatchResults
  \/ GenerateMockCompletedSystems
  \/ GenerateMockPendingSystems
  \/ ClearMockData
  \/ ReturnToCaller
  \/ Tick

-----------------------------------------------------------------------------
(* Specifications                                                           *)

\* one request to one of the two generation endpoints
NextGen ==
  \/ rowsApi = None /\ PostGenerateSystem
       /\ UNCHANGED <<oddsVars, kellyVars, simVars, apiVars, auxVars>>
  \/ GenerateSystemBody /\ UNCHANGED <<oddsVars, kellyVars, simVars, apiVars, auxVars>>
  \/ GenerateSystemFetch /\ UNCHANGED <<oddsVars, kellyVars, simVars, apiVars, auxVars>>
  \/ GenerateSystemMatches /\ UNCHANGED <<oddsVars, kellyVars, simVars, apiVars, auxVars>>
  \/ Swap /\ UNCHANGED <<oddsVars, kellyVars, simVars, apiVars, auxVars>>
  \/ FinishPerturb /\ UNCHANGED <<oddsVars, kellyVars, simVars, apiVars, auxVars>>
  \/ Assign /\ UNCHANGED <<oddsVars, kellyVars, simVars, apiVars, auxVars>>
  \/ Expand /\ UNCHANGED <<oddsVars, kellyVars, simVars, apiVars, auxVars>>
  \/ gpc = "idle" /\ NextRows

InitOdds ==
  /\ oreq \in OddsTriples /\ ores = None
  /\ kreq = None /\ kres = None
  /\ spc = "idle" /\ sreq = None /\ trial = None /\ tallies = None /\ sres = None
  /\ areq = None /\ ares = None
  /\ gpc = "idle" /\ greq = None /\ order = <<>> /\ swapsLeft = 0
  /\ randoms = NoTape /\ calls = 0
  /\ plan = <<>> /\ rows = <<>> /\ gresp = None
  /\ adj = None /\ rowsApi = None /\ calc = None /\ pay = None
  /\ sel = None /\ boot = None /\ hist = None

SpecOdds == InitOdds /\ [][NextOdds]_vars

InitKelly ==
  /\ kreq \in KellyRequests /\ kres = None
  /\ oreq = None /\ ores = None
  /\ spc = "idle" /\ sreq = None /\ trial = None /\ tallies = None /\ sres = None
  /\ areq = None /\ ares = None
  /\ gpc = "idle" /\ greq = None /\ order = <<>> /\ swapsLeft = 0
  /\ randoms = NoTape /\ calls = 0
  /\ plan = <<>> /\ rows = <<>> /\ gresp = None
  /\ adj = None /\ rowsApi = None /\ calc = None /\ pay = None
  /\ sel = None /\ boot = None /\ hist = None

SpecKelly == InitKelly /\ [][NextKelly]_vars

InitSim ==
  /\ sreq \in SimRequests /\ spc = "call" /\ trial = None /\ tallies = None /\ sres = None
  /\ oreq = None /\ ores = None
  /\ kreq = None /\ kres = None
  /\ areq = None /\ ares = None
  /\ gpc = "idle" /\ greq = None /\ order = <<>> /\ swapsLeft = 0
  /\ randoms = NoTape /\ calls = 0
  /\ plan = <<>> /\ rows = <<>> /\ gresp = None
  /\ adj = None /\ rowsApi = None /\ calc = None /\ pay = None
  /\ sel = None /\ boot = None /\ hist = None

SpecSim == InitSim /\ [][NextSim]_vars

InitSimApi ==
  /\ areq = [i \in Invocations |-> [pc |-> "idle", body |-> None, slate |-> "none"]]
  /\ ares = [i \in Invocations |-> None]
  /\ oreq = None /\ ores = None
  /\ kreq = None /\ kres = None
  /\ spc = "idle" /\ sreq = None /\ trial = None /\ tallies = None /\ sres = None
  /\ gpc = "idle" /\ greq = None /\ order = <<>> /\ swapsLeft = 0
  /\ randoms = NoTape /\ calls = 0
  /\ plan = <<>> /\ rows = <<>> /\ gresp = None
  /\ adj = None /\ rowsApi = None /\ calc = None /\ pay = None
  /\ sel = None /\ boot = None /\ hist = None

SpecSimApi == InitSimApi /\ [][NextSimApi]_vars

InitGen ==
  /\ gpc = "idle" /\ greq = None /\ order = <<>> /\ swapsLeft = 0
  /\ randoms = NoTape /\ calls = 0
  /\ plan = <<>> /\ rows = <<>> /\ gresp = None
  /\ oreq = None /\ ores = None
  /\ kreq = None /\ kres = None
  /\ spc = "idle" /\ sreq = None /\ trial = None /\ tallies = None /\ sres = None
  /\ areq = None /\ ares = None
  /\ adj = None /\ rowsApi = None /\ calc = None /\ pay = None
  /\ sel = None /\ boot = None /\ hist = None

SpecGen == InitGen /\ [][NextGen]_vars

InitAdjust ==
  /\ adj \in AdjustRequests /\ rowsApi = None /\ calc = None /\ pay = None
  /\ sel = None /\ boot = None /\ hist = None
  /\ oreq = None /\ ores = None
  /\ kreq = None /\ kres = None
  /\ spc = "idle" /\ sreq = None /\ trial = None /\ tallies = None /\ sres = None
  /\ areq = None /\ ares = None
  /\ gpc = "idle" /\ greq = None /\ order = <<>> /\ swapsLeft = 0
  /\ randoms = NoTape /\ calls = 0
  /\ plan = <<>> /\ rows = <<>> /\ gresp = None

SpecAdjust == InitAdjust /\ [][NextAdjust]_vars

InitRows ==
  /\ rowsApi = None /\ adj = None /\ calc = None /\ pay = None
  /\ sel = None /\ boot = None /\ hist = None
  /\ oreq = None /\ ores = None
  /\ kreq = None /\ kres = None
  /\ spc = "idle" /\ sreq = None /\ trial = None /\ tallies = None /\ sres = None
  /\ areq = None /\ ares = None
  /\ gpc = "idle" /\ greq = None /\ order = <<>> /\ swapsLeft = 0
  /\ randoms = NoTape /\ calls = 0
  /\ plan = <<>> /\ rows = <<>> /\ gresp = None

SpecRows == InitRows /\ [][NextRows]_vars

InitCalc ==
  /\ calc = None /\ adj = None /\ rowsApi = None /\ pay = None
  /\ sel = None /\ boot = None /\ hist = None
  /\ oreq = None /\ ores = None
  /\ kreq = None /\ kres = None
  /\ spc = "idle" /\ sreq = None /\ trial = None /\ tallies = None /\ sres = None
  /\ areq = None /\ ares = None
  /\ gpc = "idle" /\ greq = None /\ order = <<>> /\ swapsLeft = 0
  /\ randoms = NoTape /\ calls = 0
  /\ plan = <<>> /\ rows = <<>> /\ gresp = None

SpecCalc == InitCalc /\ [][NextCalc]_vars

InitPayout ==
  /\ pay = None /\ adj = None /\ rowsApi = None /\ calc = None
  /\ sel = None /\ boot = None /\ hist = None
  /\ oreq = None /\ ores = None
  /\ kreq = None /\ kres = None
  /\ spc = "idle" /\ sreq = None /\ trial = None /\ tallies = None /\ sres = None
  /\ areq = None /\ ares = None
  /\ gpc = "idle" /\ greq = None /\ order = <<>> /\ swapsLeft = 0
  /\ randoms = NoTape /\ calls = 0
  /\ plan = <<>> /\ rows = <<>> /\ gresp = None

SpecPayout == InitPayout /\ [][NextPayout]_vars

InitSelect ==
  /\ sel \in SelectRequests /\ boot = None /\ hist = None
  /\ adj = None /\ rowsApi = None /\ calc = None /\ pay = None
  /\ oreq = None /\ ores = None
  /\ kreq = None /\ kres = None
  /\ spc = "idle" /\ sreq = None /\ trial = None /\ tallies = None /\ sres = None
  /\ areq = None /\ ares = None
  /\ gpc = "idle" /\ greq = None /\ order = <<>> /\ swapsLeft = 0
  /\ randoms = NoTape /\ calls = 0
  /\ plan = <<>> /\ rows = <<>> /\ gresp = None

SpecSelect == InitSelect /\ [][NextSelect]_vars

InitInterval ==
  /\ boot \in IntervalCalls /\ sel = None /\ hist = None
  /\ adj = None /\ rowsApi = None /\ calc = None /\ pay = None
  /\ oreq = None /\ ores = None
  /\ kreq = None /\ kres = None
  /\ spc = "idle" /\ sreq = None /\ trial = None /\ tallies = None /\ sres = None
  /\ areq = None /\ ares = None
  /\ gpc = "idle" /\ greq = None /\ order = <<>> /\ swapsLeft = 0
  /\ randoms = NoTape /\ calls = 0
  /\ plan = <<>> /\ rows = <<>> /\ gresp = None

SpecInterval == InitInterval /\ [][NextInterval]_vars

InitHistory ==
  /\ hist \in [now : {0}, saves : {0}, mocks : {0}, systems : StoredHistories,
             lastCall : {NoCall}]
  /\ sel = None /\ boot = None
  /\ adj = None /\ rowsApi = None /\ calc = None /\ pay = None
  /\ oreq = None /\ ores = None
  /\ kreq = None /\ kres = None
  /\ spc = "idle" /\ sreq = None /\ trial = None /\ tallies = None /\ sres = None
  /\ areq = None /\ ares = None
  /\ gpc = "idle" /\ greq = None /\ order = <<>> /\ swapsLeft = 0
  /\ randoms = NoTape /\ calls = 0
  /\ plan = <<>> /\ rows = <<>> /\ gresp = None

SpecHistory == InitHistory /\ [][NextHistory]_vars

-----------------------------------------------------------------------------
(* Claims                                                                   *)

ValidOdds(odds) == RLt(One, odds.home) /\ RLt(One, odds.draw) /\ RLt(One, odds.away)

InUnitOpen(x) == RLt(Zero, x) /\ RLt(x, One)

\* C6: for odds > 1 and bankroll >= 0 the stake of calculateOptimalStake lies in
\* [0, 0.25 * bankroll] and is 0 when edge = probability * odds - 1 <= 0; the
\* kellyFraction findValueBets computes for an outcome is 0 when its edge is <= 0.
C6_KellyBound ==
  /\ (kreq # None /\ kres # None /\ kreq.kind = "stake"
        /\ RLt(One, kreq.odds) /\ RLe(Zero, kreq.bankroll))
     => /\ RLe(Zero, kres.stake)
        /\ RLe(kres.stake, RMul(Quarter, kreq.bankroll))
        /\ (RLe(RSub(RMul(kreq.probability, kreq.odds), One), Zero) => kres.stake = Zero)
  /\ (kreq # None /\ kres # None /\ kreq.kind = "find")
     => \A k \in 1..Len(kres.evaluated) :
          RLe(kres.evaluated[k].value, Zero) => kres.evaluated[k].kellyFraction = Zero

\* a stake request whose Kelly fraction (1.0) exceeds the cap: the stake is 250 of 1000
C6_Witness ==
  /\ kreq # None /\ kres # None /\ kreq.kind = "stake"
  /\ kreq.probability = One /\ kreq.odds = Rat(101, 100) /\ kreq.bankroll = Int2Rat(1000)
  /\ kres.stake = Int2Rat(250)

\* the edge of outcome o of a match, from the probabilities the analyser derives
EdgeOf(match, o) ==
  RSub(RMul(Field(calculateTrueProbabilities(match), o), Field(match.odds, o)), One)

\* C7: findValueBets returns a ValueBet for an outcome exactly when that outcome's
\* edge is strictly positive (once each); with no positive edge the list is empty.
C7_ValueBetsIffPositiveEdge ==
  (kreq # None /\ kres # None /\ kreq.kind = "find")
  => /\ \A i \in 1..Len(kreq.matches) : \A o \in OutcomeSet :
          LET hits == {k \in 1..Len(kres.valueBets) :
                         kres.valueBets[k].matchId = i /\ kres.valueBets[k].outcome = o}
          IN  Cardinality(hits) = IF RLt(Zero, EdgeOf(kreq.matches[i], o)) THEN 1 ELSE 0
     /\ (\A i \in 1..Len(kreq.matches) : \A o \in OutcomeSet :
           ~RLt(Zero, EdgeOf(kreq.matches[i], o))) => kres.valueBets = <<>>

\* the match with odds {1.5, 3.6, 6.0} (de-vigged to {0.6, 0.25, 0.15}) and no
\* public percentages: every edge is negative and the result is the empty list
C7_Witness ==
  /\ kreq # None /\ kres # None /\ kreq.kind = "find"
  /\ kreq.matches = <<KellyMatch(Rat(3, 2), Rat(18, 5), Rat(6, 1), None)>>
  /\ oddsToNormalizedProbabilities(kreq.matches[1].odds) = Triple(Rat(3, 5), Rat(1, 4), Rat(3, 20))
  /\ kres.valueBets = <<>>
  /\ kres.totalValue = Zero

\* C8: after any number of trials of simulateRow over 13 matches, atLeast_k is the
\* sum of exactly_j for j in k..13, the at-least buckets decrease with k, atLeast13
\* equals exactly13, and no bucket exceeds the number of trials run.
C8_BucketsConsistent ==
  (tallies # None /\ Len(sreq.matches) = 13)
  => /\ tallies.atLeast13 = tallies.exactly13
     /\ tallies.atLeast12 = tallies.exactly12 + tallies.exactly13
     /\ tallies.atLeast11 = tallies.exactly11 + tallies.exactly12 + tallies.exactly13
     /\ tallies.atLeast10 = tallies.exactly10 + tallies.exactly11 + tallies.exactly12
                              + tallies.exactly13
     /\ tallies.atLeast10 >= tallies.atLeast11
     /\ tallies.atLeast11 >= tallies.atLeast12
     /\ tallies.atLeast12 >= tallies.atLeast13
     /\ \A k \in DOMAIN tallies : tallies[k] >= 0 /\ tallies[k] <= trial.i

\* two trials run: one with all 13 correct, one with exactly 10 correct
C8_Witness ==
  /\ tallies # None /\ Len(sreq.matches) = 13
  /\ trial.i = 2
  /\ tallies.exactly13 = 1 /\ tallies.exactly10 = 1
  /\ tallies.atLeast10 = 2 /\ tallies.atLeast13 = 1
  /\ trial.totalCorrect = 23

\* the original statement of C9: a simulation request with iterations outside
\* [1000, 1000000] is answered 400 and runs no trial; a request whose iterations lie
\* inside the range runs exactly that many trials per row and reports the number.
C9_IterationsValidated ==
  \A i \in Invocations :
    (areq[i].body # None /\ ares[i] # None)
    => /\ (iterationsOf(areq[i].body) < 1000 \/ iterationsOf(areq[i].body) > 1000000)
            => ares[i].status = 400 /\ ares[i].results = <<>>
       /\ (iterationsOf(areq[i].body) >= 1000 /\ iterationsOf(areq[i].body) <= 1000000)
            => /\ ares[i].status = 200
               /\ ares[i].iterations = iterationsOf(areq[i].body)
               /\ Len(ares[i].results) = areq[i].body.rows
               /\ \A r \in 1..Len(ares[i].results) :
                    /\ ares[i].results[r].trialsRun = iterationsOf(areq[i].body)
                    /\ ares[i].results[r].iterations = iterationsOf(areq[i].body)

\* C9: a simulation request with iterations outside [1000, 1000000] is answered
\* 400 and runs no trial, whatever another request in progress does; a request with
\* at least one row whose iterations lie inside the range is never answered 400:
\* it is answered 200, having run exactly that many trials for each of its rows and
\* reporting the number, unless the match list could not be obtained or a row has no
\* outcomes to compare with a match, and then it is answered 500 with no result.
C9_IterationsValidatedOrFailed ==
  \A i \in Invocations :
    (areq[i].body # None /\ ares[i] # None)
    => /\ (iterationsOf(areq[i].body) < 1000 \/ iterationsOf(areq[i].body) > 1000000)
            => ares[i].status = 400 /\ ares[i].results = <<>>
       /\ (iterationsOf(areq[i].body) >= 1000 /\ iterationsOf(areq[i].body) <= 1000000
             /\ areq[i].body.rows >= 1)
            => /\ ares[i].status \in {200, 500}
               /\ ares[i].status = 500 => ares[i].results = <<>>
               /\ ares[i].status = 500
                    <=> \/ areq[i].slate \in {"rejected", "unparsed", "missing"}
                        \/ areq[i].slate = "matches" /\ ~areq[i].body.outcomesGiven
               /\ ares[i].status = 200
                    => /\ ares[i].iterations = iterationsOf(areq[i].body)
                       /\ Len(ares[i].results) = areq[i].body.rows
                       /\ \A r \in 1..Len(ares[i].results) :
                            /\ ares[i].results[r].trialsRun = iterationsOf(areq[i].body)
                            /\ ares[i].results[r].iterations = iterationsOf(areq[i].body)

\* the lower bound itself is accepted: two rows, 1000 trials each, answered while
\* the other invocation, whose iterations are 999, has been answered 400
C9_Witness ==
  /\ ares["A"] # None /\ ares["B"] # None
  /\ areq["A"].body # None /\ areq["B"].body # None
  /\ areq["A"].body.iterationsGiven /\ areq["A"].body.iterations = 1000
  /\ areq["A"].body.rows = 2
  /\ ares["A"].status = 200 /\ ares["A"].iterations = 1000
  /\ ares["A"].results[1].trialsRun = 1000 /\ ares["A"].results[2].trialsRun = 1000
  /\ ares["A"].results[1].matchesPerTrial = NumMatches
  /\ areq["B"].body.iterationsGiven /\ areq["B"].body.iterations = 999
  /\ areq["B"].body.rows = 1
  /\ ares["B"].status = 400

\* C10: for odds each > 1, oddsToNormalizedProbabilities returns three values in
\* (0,1) that sum to 1, each the reciprocal of its odds over the sum of reciprocals.
C10_NormalizedSumsToOne ==
  (oreq # None /\ ores # None /\ ValidOdds(oreq))
  => LET total == RAdd(RAdd(RDiv(One, oreq.home), RDiv(One, oreq.draw)), RDiv(One, oreq.away))
     IN  /\ InUnitOpen(ores.home) /\ InUnitOpen(ores.draw) /\ InUnitOpen(ores.away)
         /\ RAdd(RAdd(ores.home, ores.draw), ores.away) = One
         /\ RMul(RMul(ores.home, total), oreq.home) = One
         /\ RMul(RMul(ores.draw, total), oreq.draw) = One
         /\ RMul(RMul(ores.away, total), oreq.away) = One

\* odds {2.0, 3.0, 4.0} normalise to {6/13, 4/13, 3/13} ~ {0.4615, 0.3077, 0.2308}
C10_Witness ==
  /\ oreq = Triple(Int2Rat(2), Int2Rat(3), Int2Rat(4))
  /\ ores = Triple(Rat(6, 13), Rat(4, 13), Rat(3, 13))

-----------------------------------------------------------------------------
(* Claims about system generation                                           *)

\* a distribution with no negative count that sums to the slate size
ValidDistribution(d) ==
  /\ d.halves >= 0 /\ d.fulls >= 0 /\ d.singles >= 0
  /\ d.halves + d.fulls + d.singles = NumMatches

\* the request reached generateSystem with 13 matches and a valid distribution
GeneratedValid ==
  /\ greq # None /\ greq.systemConfig # None /\ greq.riskProfile \in RiskProfiles
  /\ ValidDistribution(greq.systemConfig.distribution)
  /\ Len(greq.matches) = NumMatches

\* C1: with 13 matches and a distribution of non-negative counts summing to 13,
\* generateSystem returns exactly 2^halves * 3^fulls rows, whatever the risk
\* profile and whatever the random perturbation drew.
C1_RowCount ==
  (gpc = "done" /\ GeneratedValid) =>
     /\ gresp.status = 200
     /\ Len(rows) = (2 ^ greq.systemConfig.distribution.halves)
                      * (3 ^ greq.systemConfig.distribution.fulls)
     /\ gresp.generated = Len(rows)

\* C2: the rows of one expansion are pairwise distinct outcome sequences.
C2_RowsDistinct ==
  gpc = "done" /\ rows # <<>> => Cardinality({rows[k] : k \in 1..Len(rows)}) = Len(rows)

C2_Witness ==
  /\ gpc = "done" /\ Len(rows) >= 6
  /\ \E i \in 1..NumMatches : plan[i].systemOutcome = "X2"
  /\ \E i \in 1..NumMatches : plan[i].systemOutcome = "1X2"
  /\ \E i \in 1..NumMatches : plan[i].systemOutcome = "X"

\* the outcomes a system outcome covers
Covered(systemOutcome) ==
  CASE systemOutcome = "1" -> {"1"}
    [] systemOutcome = "X" -> {"X"}
    [] systemOutcome = "2" -> {"2"}
    [] systemOutcome = "1X" -> {"1", "X"}
    [] systemOutcome = "12" -> {"1", "2"}
    [] systemOutcome = "X2" -> {"X", "2"}
    [] systemOutcome = "1X2" -> {"1", "X", "2"}
    [] OTHER -> {}

\* C3: every row has exactly one outcome per match, the outcome at position i is
\* one the plan covers for match i, and the plan lists the matches in the order
\* they were given in.
C3_CoverageConsistent ==
  gpc = "done" /\ rows # <<>> =>
     /\ \A i \in 1..NumMatches : plan[i].matchId = greq.matches[i].matchId
     /\ \A k \in 1..Len(rows) :
          /\ Len(rows[k]) = NumMatches
          /\ \A i \in 1..NumMatches : rows[k][i] \in Covered(plan[i].systemOutcome)

C3_Witness ==
  /\ gpc = "done" /\ Len(rows) = 4
  /\ greq.riskProfile = "balanced"
  /\ order # rankMatches(greq.matches)
  /\ \E k \in 1..Len(rows) : \E i \in 1..NumMatches :
       rows[k][i] = "2" /\ plan[i].systemOutcome = "X2"

Halves == {"1X", "12", "X2"}

Singles == {"1", "X", "2"}

\* the number of matches of the plan whose system outcome is in class
classCount(class) == Cardinality({i \in 1..Len(plan) : plan[i].systemOutcome \in class})

\* C4: after selectSystemOutcomes on 13 matches with a distribution summing to 13,
\* the plan has exactly `halves` two-outcome matches, `fulls` three-outcome matches
\* and `singles` one-outcome matches, for every profile and perturbation.
C4_ClassCounts ==
  (gpc \in {"expand", "done"} /\ GeneratedValid) =>
     /\ Len(plan) = NumMatches
     /\ classCount(Halves) = greq.systemConfig.distribution.halves
     /\ classCount({"1X2"}) = greq.systemConfig.distribution.fulls
     /\ classCount(Singles) = greq.systemConfig.distribution.singles

C4_Witness ==
  /\ gpc = "expand" /\ GeneratedValid
  /\ greq.riskProfile = "risky"
  /\ greq.systemConfig.distribution = [halves |-> 2, fulls |-> 1, singles |-> 10]
  /\ order # rankMatches(greq.matches)
  /\ classCount(Halves) = 2 /\ classCount({"1X2"}) = 1 /\ classCount(Singles) = 10

\* C5: a request whose distribution does not sum to the number of matches, or has
\* a negative count, is rejected before any match is assigned a coverage class:
\* no plan and no rows are produced.
C5_MismatchRejected ==
  (greq # None /\ greq.systemConfig # None
     /\ ~ValidDistribution(greq.systemConfig.distribution)) =>
     /\ plan = <<>>
     /\ rows = <<>>
     /\ (gpc = "done" => gresp.status = 400)

-----------------------------------------------------------------------------
(* Claims about risk adjustment                                             *)

IsGreatest(t, o) == \A q \in OutcomeSet : RLe(Field(t, q), Field(t, o))

IsLeast(t, o) == \A q \in OutcomeSet : RLe(Field(t, o), Field(t, q))

\* C11: for every probability triple summing to 1, adjustMatchProbabilities
\* returns a triple summing to 1; with profile balanced the triple is unchanged;
\* with profile safe the most probable outcome's probability does not decrease
\* and the least probable outcome's does not increase; with profile risky the
\* most probable outcome's does not increase and the least probable outcome's
\* does not decrease.
C11_RiskAdjustment ==
  (adj # None /\ adj.result # None /\ TripleSum(adj.probabilities) = One)
  => /\ TripleSum(adj.result) = One
     /\ adj.riskProfile = "balanced" => adj.result = adj.probabilities
     /\ adj.riskProfile = "safe" =>
          \A o \in OutcomeSet :
            /\ IsGreatest(adj.probabilities, o)
                 => RLe(Field(adj.probabilities, o), Field(adj.result, o))
            /\ IsLeast(adj.probabilities, o)
                 => RLe(Field(adj.result, o), Field(adj.probabilities, o))
     /\ adj.riskProfile = "risky" =>
          \A o \in OutcomeSet :
            /\ IsGreatest(adj.probabilities, o)
                 => RLe(Field(adj.result, o), Field(adj.probabilities, o))
            /\ IsLeast(adj.probabilities, o)
                 => RLe(Field(adj.probabilities, o), Field(adj.result, o))

\* a safe adjustment in which the favourite's raw value 0.9 * 1.28 is clamped to 1
\* and its share rises above 0.9
C11_Witness ==
  /\ adj # None /\ adj.result # None
  /\ adj.riskProfile = "safe"
  /\ adj.probabilities = Triple(Rat(9, 10), Rat(1, 20), Rat(1, 20))
  /\ RLt(Rat(9, 10), adj.result.home)
  /\ RLt(adj.result.draw, Rat(1, 20))

-----------------------------------------------------------------------------
(* Claims about probability triples and odds validation                     *)

InUnitClosed(x) == RLe(Zero, x) /\ RLe(x, One)

IsProbabilityTriple(t) ==
  /\ InUnitClosed(t.home) /\ InUnitClosed(t.draw) /\ InUnitClosed(t.away)
  /\ TripleSum(t) = One

\* C12: every probability triple produced at a stage boundary has each component
\* in [0,1] and sums to 1; in particular the triple computed by
\* calculateTrueProbabilities (de-vig, optional 70/30 blend with the public
\* percentages, +0.05 home / -0.025 draw / -0.025 away shift, renormalization)
\* satisfies this for every match analysed whose three odds are all > 1.
C12_TrueProbabilitiesInUnit ==
  (kreq # None /\ kres # None /\ kreq.kind = "find")
  => \A i \in 1..Len(kreq.matches) :
       ValidOdds(kreq.matches[i].odds)
         => IsProbabilityTriple(calculateTrueProbabilities(kreq.matches[i]))

\* C13: an odds triple containing any value <= 1.0 is rejected as invalid input
\* before normalization: oddsToNormalizedProbabilities never returns a
\* probability triple for such input.
C13_InvalidOddsRejected ==
  (oreq # None /\ ~ValidOdds(oreq)) => ~(ores # None /\ IsProbabilityTriple(ores))

-----------------------------------------------------------------------------
(* Claims about the request handlers                                        *)

\* C14: a generate-system or generate-rows request whose riskProfile is missing
\* or not one of safe, balanced, risky is answered with a 400 error, and
\* generateSystem / generateMultipleRows is never invoked for it: no ranking,
\* plan or rows are produced.
C14_InvalidProfileRejected ==
  /\ (gpc = "done" /\ greq # None /\ greq.riskProfile \notin RiskProfiles)
     => /\ gresp.status = 400
        /\ order = <<>> /\ plan = <<>> /\ rows = <<>>
  /\ (rowsApi # None /\ rowsApi.pc = "done" /\ rowsApi.config # None
        /\ rowsApi.config.riskProfile \notin RiskProfiles)
     => /\ rowsApi.response.status = 400
        /\ ~rowsApi.invoked /\ rowsApi.rows = <<>> /\ rowsApi.attempts = 0

\* C15: in every successful generate-system response, configuration.totalRows
\* equals the number of rows actually generated (2^halves * 3^fulls) and the
\* reported cost equals that row count times 1 unit per row.
C15_TotalsMatchGenerated ==
  (gresp # None /\ gresp.status = 200)
  => /\ gresp.configuration.totalRows = Int2Rat(gresp.generated)
     /\ gresp.generated = Len(rows)
     /\ gresp.cost = RMul(Int2Rat(gresp.generated), Int2Rat(1))

-----------------------------------------------------------------------------
(* Claims about the system calculator                                       *)

\* C16: every SystemConfiguration produced by StryktipsetSystemCalculator
\* (generateAllValidSystems, findClosestSystem) has halves + fulls + singles = 13,
\* totalRows = 2^halves * 3^fulls, cost = totalRows, and totalRows <= maxRows.
C16_CalculatorConfigsValid ==
  (calc # None /\ calc.pc = "done")
  => \A k \in 1..Len(calc.result) :
       /\ calc.result[k].distribution.halves + calc.result[k].distribution.fulls
            + calc.result[k].distribution.singles = NumMatches
       /\ calc.result[k].totalRows
            = Int2Rat((2 ^ calc.result[k].distribution.halves)
                        * (3 ^ calc.result[k].distribution.fulls))
       /\ calc.result[k].cost = calc.result[k].totalRows
       /\ RLe(calc.result[k].totalRows, Int2Rat(calc.call.maxRows))

-----------------------------------------------------------------------------
(* Claims about payouts                                                     *)

\* C17: the expectedPayout returned by simulateRow equals the sum over k in
\* {10, 11, 12, 13} of (exactly_k tally / trials) * payout(k), with payout(10) = 50,
\* payout(11) = 500, payout(12) = 5000, payout(13) = 50000, and averageCorrect
\* equals the total of the per-trial correct counts divided by trials (for a
\* simulation of at least one trial).
C17_ExpectedPayoutFromTallies ==
  (spc = "done" /\ sreq.iterations > 0)
  => /\ trial.i = sreq.iterations
     /\ sres.expectedPayout
          = Rat(tallies.exactly10 * 50 + tallies.exactly11 * 500
                  + tallies.exactly12 * 5000 + tallies.exactly13 * 50000, trial.i)
     /\ sres.averageCorrect = Rat(trial.totalCorrect, trial.i)

\* two trials, one with 13 correct and one with exactly 10: (50000 + 50) / 2
C17_Witness ==
  /\ spc = "done" /\ sreq.iterations = 2
  /\ tallies.exactly13 = 1 /\ tallies.exactly10 = 1
  /\ sres.expectedPayout = Int2Rat(25025)
  /\ sres.averageCorrect = Rat(23, 2)

\* C18: the payout estimate is a non-decreasing step function of the correct
\* count: it is 0 for counts below 10 and strictly increases at each of the
\* thresholds 10, 11, 12, 13; the row generator's estimator, the simulation
\* payout table and the bootstrap payout branch assign the same payout to every
\* integer count in 0..13.
C18_PayoutStepFunction ==
  /\ (pay # None /\ pay.kind = "pair")
     => /\ pay.rowLow <= pay.rowHigh
        /\ RLt(pay.low, Int2Rat(10)) => pay.rowLow = 0
        /\ \A t \in 10..13 :
             (RLt(pay.low, Int2Rat(t)) /\ RLe(Int2Rat(t), pay.high)) => pay.rowLow < pay.rowHigh
        /\ (\A t \in 10..13 : ~(RLt(pay.low, Int2Rat(t)) /\ RLe(Int2Rat(t), pay.high)))
             => pay.rowLow = pay.rowHigh
  /\ (pay # None /\ pay.kind = "count")
     => /\ Int2Rat(pay.row) = pay.table
        /\ pay.row = pay.bootstrap
        /\ pay.correctCount < 10 => pay.row = 0

\* the estimates on both sides of the threshold 12
C18_Witness ==
  /\ pay # None /\ pay.kind = "pair"
  /\ pay.low = Rat(23, 2) /\ pay.high = Int2Rat(12)
  /\ pay.rowLow = 500 /\ pay.rowHigh = 5000

-----------------------------------------------------------------------------
(* Claims about the ranking and its perturbation                            *)

\* the coverage class the k-th match of a ranking gets under distribution d
ClassAtRank(k, d) ==
  IF k <= d.halves THEN Halves
  ELSE IF k <= d.halves + d.fulls THEN {"1X2"}
  ELSE Singles

\* ranked lists every match once, in descending order of
\* 0.6 * uncertainty + 0.4 * value, and the plan gives the match at rank k the
\* class of rank k
AllocatedByRank(ranked, matches, d) ==
  /\ {ranked[k].index : k \in 1..Len(ranked)} = 1..Len(matches)
  /\ \A k \in 1..Len(ranked) :
       /\ ranked[k].match = matches[ranked[k].index]
       /\ ranked[k].strategicValue
            = RAdd(RMul(Rat(3, 5), ranked[k].scores.uncertaintyScore),
                   RMul(Rat(2, 5), ranked[k].scores.valueScore))
       /\ plan[ranked[k].index].systemOutcome \in ClassAtRank(k, d)
  /\ \A k \in 1..(Len(ranked) - 1) :
       RLe(ranked[k + 1].strategicValue, ranked[k].strategicValue)

\* C19: with risk profile safe the allocation is deterministic: every run of
\* selectSystemOutcomes on the same matches and configuration yields the same
\* coverage plan, in which the Half matches are the `halves` highest-ranked by
\* strategic value (0.6 * uncertainty + 0.4 * value), the Full matches the next
\* `fulls`, and the rest Single.
C19_SafeDeterministic ==
  (gpc \in {"expand", "done"} /\ GeneratedValid /\ greq.riskProfile = "safe")
  => /\ \A t \in RandomTapes : plan = assignOutcomes(rankMatches(greq.matches), greq, t, 0)
     /\ AllocatedByRank(order, greq.matches, greq.systemConfig.distribution)

\* a safe plan with two halves and a full: the top-ranked match is a Half
C19_Witness ==
  /\ gpc = "expand" /\ GeneratedValid /\ greq.riskProfile = "safe"
  /\ greq.systemConfig.distribution = [halves |-> 2, fulls |-> 1, singles |-> 10]
  /\ plan[order[1].index].systemOutcome \in Halves
  /\ plan[order[3].index].systemOutcome = "1X2"
  /\ plan[order[4].index].systemOutcome \in Singles
  /\ order[1].index # 1

\* the position in base of the match at position k of perturbed
basePosition(perturbed, base, k) ==
  CHOOSE b \in 1..Len(base) : base[b].index = perturbed[k].index

\* the positions a window position leads to under repeated application of the
\* rearrangement
orbit(perturbed, base, k) ==
  {k, basePosition(perturbed, base, k),
   basePosition(perturbed, base, basePosition(perturbed, base, k)),
   basePosition(perturbed, base, basePosition(perturbed, base,
     basePosition(perturbed, base, k))),
   basePosition(perturbed, base, basePosition(perturbed, base,
     basePosition(perturbed, base, basePosition(perturbed, base, k))))}

\* the least number of pairwise swaps that turns base into perturbed inside the
\* window: its size minus the number of cycles of the rearrangement
swapDistance(perturbed, base, window) ==
  Cardinality(window) - Cardinality({orbit(perturbed, base, k) : k \in window})

\* order differs from base only by a rearrangement of ranking positions 4..8
\* (counted from 0) that at most maxSwaps pairwise swaps produce
PerturbedInMiddle(base, maxSwaps) ==
  /\ Len(order) = Len(base)
  /\ \A k \in (1..4) \cup (10..Len(base)) : order[k] = base[k]
  /\ {order[k] : k \in 5..9} = {base[k] : k \in 5..9}
  /\ swapDistance(order, base, 5..9) <= maxSwaps

\* C20: with risk profile balanced the perturbation leaves ranking positions 0..3
\* and 9..12 unchanged and only permutes the matches at positions 4..8 among
\* themselves, using at most 3 pairwise swaps.
C20_BalancedMiddleWindow ==
  (gpc \in {"swap", "assign", "expand", "done"} /\ greq # None /\ greq.systemConfig # None
     /\ greq.riskProfile = "balanced" /\ greq.matches # <<>>)
  => /\ swapsLeft \in 0..3
     /\ PerturbedInMiddle(rankMatches(greq.matches), 3)
     /\ gpc = "swap" => PerturbedInMiddle(rankMatches(greq.matches), 3 - swapsLeft)

\* after the three swaps the window holds a rearrangement that needs all three
C20_Witness ==
  /\ gpc = "assign" /\ greq.systemConfig # None /\ greq.riskProfile = "balanced"
  /\ swapDistance(order, rankMatches(greq.matches), 5..9) = 3
  /\ order[5] # rankMatches(greq.matches)[5]

-----------------------------------------------------------------------------
(* Claims about the assignment of coverage to matches                       *)

SystemOutcomes == {"1", "X", "2", "1X", "12", "X2", "1X2"}

\* every input index occurs exactly once in the ranking, with its own match
IsPermutationOf(ranking, matches) ==
  /\ Len(ranking) = Len(matches)
  /\ \A i \in 1..Len(matches) :
       Cardinality({k \in 1..Len(ranking) : ranking[k].index = i}) = 1
  /\ \A k \in 1..Len(ranking) : ranking[k].match = matches[ranking[k].index]

\* C21: for every risk profile the perturbed ranking is a permutation of the
\* input matches; every match receives exactly one coverage assignment, none is
\* assigned twice or dropped, and the plan entry of a match sits at the match's
\* input index with its matchId, odds and probabilities unchanged.
C21_AssignmentIsPermutation ==
  /\ gpc \in {"swap", "assign", "expand"} => IsPermutationOf(order, greq.matches)
  /\ gpc = "expand" =>
       /\ Len(plan) = NumMatches
       /\ \A i \in 1..Len(greq.matches) :
            /\ plan[i].matchId = greq.matches[i].matchId
            /\ plan[i].odds = greq.matches[i].odds
            /\ plan[i].probabilities = greq.matches[i].probabilities
            /\ plan[i].systemOutcome \in SystemOutcomes
       /\ \A i \in (Len(greq.matches) + 1)..NumMatches : plan[i] = EmptySlot
  /\ (gpc = "done" /\ gresp.success) =>
       /\ IsPermutationOf(order, greq.matches)
       /\ Len(gresp.matches) = Len(greq.matches)
       /\ \A i \in 1..Len(greq.matches) :
            /\ gresp.matches[i].matchId = greq.matches[i].matchId
            /\ gresp.matches[i].odds = greq.matches[i].odds
            /\ gresp.matches[i].probabilities = greq.matches[i].probabilities
            /\ gresp.matches[i].systemOutcome \in SystemOutcomes

\* a risky request whose ranking was perturbed and whose plan is complete
C21_Witness ==
  /\ gpc = "done" /\ gresp.success
  /\ greq.riskProfile = "risky"
  /\ order # rankMatches(greq.matches)
  /\ \E k \in 1..NumMatches : order[k].index # k
  /\ \A i \in 1..NumMatches : plan[i].systemOutcome \in SystemOutcomes

-----------------------------------------------------------------------------
(* Claims about the safe selection of halves and singles                    *)

\* the outcome a half leaves out
Excluded(half) == CHOOSE o \in OutcomeSet : o \notin Covered(half)

\* C22: with risk profile safe, the half chosen by selectIntelligentHalf covers
\* the two most probable outcomes: the probability of the excluded outcome is
\* less than or equal to the probability of each covered outcome.
C22_SafeHalfCoversTopTwo ==
  (sel # None /\ sel.pc = "done") =>
    /\ sel.half \in Halves
    /\ \A o \in Covered(sel.half) :
         RLe(Field(sel.probabilities, Excluded(sel.half)), Field(sel.probabilities, o))

\* a match whose away win is the least likely outcome and is left out, although
\* the draw, not the safe pick itself, decides the pair
C22_Witness ==
  /\ sel # None /\ sel.pc = "done"
  /\ sel.probabilities = Triple(Rat(9, 20), Rat(7, 20), Rat(4, 20))
  /\ sel.half = "1X"

\* C23: with risk profile safe, the single chosen for a match is an outcome of
\* maximal probability for that match, whatever the expert-consensus score is.
C23_SafeSingleIsMostProbable ==
  (sel # None /\ sel.pc = "done") =>
    /\ sel.single \in OutcomeSet
    /\ \A o \in OutcomeSet :
         RLe(Field(sel.probabilities, o), Field(sel.probabilities, sel.single))

\* a likely draw is the single, with the experts unanimous for the home side
C23_Witness ==
  /\ sel # None /\ sel.pc = "done"
  /\ sel.expertTips = Counts(10, 0, 0)
  /\ sel.probabilities = Triple(Rat(6, 20), Rat(8, 20), Rat(6, 20))
  /\ sel.single = "X"

-----------------------------------------------------------------------------
(* Claims about the Kelly fraction of a value bet                           *)

\* the odds a value bet was found at
OddsOfBet(bet) == Field(kreq.matches[bet.matchId].odds, bet.outcome)

\* C24: every ValueBet returned by findValueBets carries
\* kellyFraction = edge / (odds - 1) and
\* recommendedStake = min(kellyFraction * bankroll, 0.25 * bankroll), for bankroll > 0.
C24_ValueBetKellyFraction ==
  (kreq # None /\ kres # None /\ kreq.kind = "find" /\ RLt(Zero, kreq.bankroll))
    => \A k \in 1..Len(kres.valueBets) :
         /\ kres.valueBets[k].kellyFraction
              = RDiv(kres.valueBets[k].value, RSub(OddsOfBet(kres.valueBets[k]), One))
         /\ kres.valueBets[k].recommendedStake
              = RMin(RMul(kres.valueBets[k].kellyFraction, kreq.bankroll),
                     RMul(Quarter, kreq.bankroll))

-----------------------------------------------------------------------------
(* Claims about sampling from a probability triple                          *)

\* the outcome whose share of the triple's total holds the draw
ProportionalOutcome(probabilities, random) ==
  selectWeightedRandomOutcome(scaleBy(probabilities, TripleSum(probabilities)), random)

\* C25: before a realized outcome is sampled in a simulation trial, a triple
\* that does not sum to 1 is renormalized, so each outcome is realized with
\* probability proportional to its weight (p_i divided by the triple's sum)
\* and the residual mass does not fall on the away outcome.
C25_RenormalizedBeforeSampling ==
  (spc = "matchday" /\ trial.j > 0)
    => trial.actualOutcome = ProportionalOutcome(sreq.matches[trial.j], trial.random)

-----------------------------------------------------------------------------
(* Claims about the confidence interval                                     *)

\* the elements of an array given as runs
ElementsOf(runs) == {runs[k].value : k \in 1..Len(runs)}

\* lower and upper are both defined, both elements of the array, and ordered
IsIntervalOf(bounds, runs) ==
  /\ Cardinality(bounds.lower) = 1 /\ bounds.lower \subseteq ElementsOf(runs)
  /\ Cardinality(bounds.upper) = 1 /\ bounds.upper \subseteq ElementsOf(runs)
  /\ \A l \in bounds.lower, u \in bounds.upper : RLe(l, u)

\* C26: for every confidenceLevel with 0 < confidenceLevel <= 1,
\* simulateWithConfidenceIntervals reports, for averageCorrect and for
\* expectedPayout, a lower and an upper bound that are both elements of the 1000
\* sorted bootstrap replicates (indices within 0..999) with lower <= upper.
C26_IntervalWithinReplicates ==
  (boot # None /\ boot.pc = "done"
     /\ RLt(Zero, boot.confidenceLevel) /\ RLe(boot.confidenceLevel, One))
    => /\ runLength(boot.bootstrapResults) = BootstrapSamples
       /\ runLength(boot.bootstrapPayouts) = BootstrapSamples
       /\ boot.confidenceIntervals.lowerIndex \in 0..(BootstrapSamples - 1)
       /\ boot.confidenceIntervals.upperIndex \in 0..(BootstrapSamples - 1)
       /\ IsIntervalOf(boot.confidenceIntervals.averageCorrect, boot.bootstrapResults)
       /\ IsIntervalOf(boot.confidenceIntervals.expectedPayout, boot.bootstrapPayouts)

-----------------------------------------------------------------------------
(* Claims about the row generator                                           *)

\* the rows accepted so far and, once the handler has answered, the rows returned
RowsHeld ==
  IF rowsApi.pc = "done" /\ rowsApi.response.success THEN rowsApi.response.rows
  ELSE rowsApi.rows

\* the number of picks of a row whose odds are below the threshold
Favorites(row, matches, threshold) ==
  Cardinality({i \in 1..Len(matches) :
                 RLt(Field(matches[i].odds, row.outcomes[i]), threshold)})

\* the limits on draws, away wins and favorites hold for the row
WithinLimits(row, matches, filters) ==
  /\ \A n \in filters.minDraws : countOf(row.outcomes, "X") >= n
  /\ \A n \in filters.maxDraws : countOf(row.outcomes, "X") <= n
  /\ \A n \in filters.minAwayWins : countOf(row.outcomes, "2") >= n
  /\ \A n \in filters.maxAwayWins : countOf(row.outcomes, "2") <= n
  /\ \A t \in filters.maxOddsBelow : \A n \in filters.maxFavorites :
       Favorites(row, matches, t) <= n

\* C27: generateMultipleRows always terminates after at most numRows * 10
\* generation attempts and returns at most numRows rows whose outcome sequences
\* are pairwise distinct; a generated row that fails the filters or duplicates
\* an accepted row is discarded and never returned.
C27_BoundedDistinctRows ==
  (rowsApi # None /\ rowsApi.invoked)
    => /\ rowsApi.attempts <= rowsApi.config.numRows * 10
       /\ (rowsApi.pc = "generate" /\ rowsApi.attempts = rowsApi.config.numRows * 10)
            => ~ENABLED Attempt
       /\ Len(rowsApi.rows) <= rowsApi.config.numRows
       /\ Len(rowsApi.rows) <= rowsApi.attempts
       /\ Len(RowsHeld) = Len(rowsApi.rows)
       /\ \A j, k \in 1..Len(RowsHeld) :
            j # k => RowsHeld[j].outcomes # RowsHeld[k].outcomes
       /\ \A k \in 1..Len(RowsHeld) :
            /\ Len(RowsHeld[k].outcomes) = Len(rowsApi.matches)
            /\ WithinLimits(RowsHeld[k], rowsApi.matches, rowsApi.config.filters)

\* two rows were asked for, all 20 attempts were used and only one row could be
\* returned: every other attempt was discarded
C27_Witness ==
  /\ rowsApi # None /\ rowsApi.pc = "done" /\ rowsApi.response.success
  /\ rowsApi.config.numRows = 2
  /\ rowsApi.attempts = 20
  /\ Len(rowsApi.response.rows) = 1

\* C28 as stated: every row returned by generateRow / generateMultipleRows
\* satisfies every configured filter: draws within [minDraws, maxDraws], away
\* wins within [minAwayWins, maxAwayWins], at most maxFavorites picks with odds
\* below the favorite threshold, and for every personal bias the row's outcome
\* for that match equals the forced outcome.
C28_RowsSatisfyFilters ==
  (rowsApi # None /\ rowsApi.invoked)
    => \A k \in 1..Len(RowsHeld) :
         /\ WithinLimits(RowsHeld[k], rowsApi.matches, rowsApi.config.filters)
         /\ \A b \in 1..Len(rowsApi.config.filters.personalBiases) :
              \A i \in 1..Len(rowsApi.matches) :
                rowsApi.matches[i].matchId = rowsApi.config.filters.personalBiases[b].matchId
                  => RowsHeld[k].outcomes[i] = rowsApi.config.filters.personalBiases[b].outcome

\* C28 amended: as above, with the personal biases read as the code reads them:
\* for every match the row's outcome equals the outcome of the first personal
\* bias listed for that match.
C28_RowsSatisfyFiltersFirstBias ==
  (rowsApi # None /\ rowsApi.invoked)
    => \A k \in 1..Len(RowsHeld) :
         /\ WithinLimits(RowsHeld[k], rowsApi.matches, rowsApi.config.filters)
         /\ \A b \in 1..Len(rowsApi.config.filters.personalBiases) :
              \A i \in 1..Len(rowsApi.matches) :
                (/\ rowsApi.matches[i].matchId
                      = rowsApi.config.filters.personalBiases[b].matchId
                 /\ \A a \in 1..(b - 1) :
                      rowsApi.config.filters.personalBiases[a].matchId
                        # rowsApi.config.filters.personalBiases[b].matchId)
                  => RowsHeld[k].outcomes[i] = rowsApi.config.filters.personalBiases[b].outcome

\* a returned row whose second match is forced to a draw by the first of two
\* biases and which thereby meets minDraws = 1
C28_Witness ==
  /\ rowsApi # None /\ rowsApi.pc = "done" /\ rowsApi.response.success
  /\ rowsApi.config.filters.minDraws = {1}
  /\ Len(rowsApi.config.filters.personalBiases) = 2
  /\ Len(rowsApi.matches) = 2
  /\ rowsApi.response.rows[1].outcomes[2] = "X"

-----------------------------------------------------------------------------
(* Claims about the system history                                          *)

IdsOf(systems) == {systems[k].id : k \in 1..Len(systems)}

\* the results contain a result for every match of the system
HasAllResults(system, matchResults) ==
  \A i \in 1..Len(system.matches) :
    \E k \in 1..Len(matchResults) : matchResults[k].matchId = system.matches[i].matchId

\* the system is one a processMatchResults call at time now may complete
MayComplete(system, now, call) ==
  /\ call.op = "process"
  /\ system.status = "pending"
  /\ system.timestamp > now - 7 * HoursPerDay
  /\ HasAllResults(system, call.matchResults)

\* C29: a saved system starts as pending; processMatchResults changes a system to
\* completed only if it is pending, was saved within the last 7 days and the
\* supplied results contain a result for every one of its matches; every other
\* stored system (completed ones, pending ones with incomplete results) is left
\* unchanged, and no operation of the manager moves a completed system back to
\* pending.
C29_PendingToCompletedOnly ==
  [][hist # None =>
       /\ (hist'.lastCall.op = "save" /\ hist'.lastCall.stored) =>
            /\ hist'.systems[1].id = hist'.lastCall.id
            /\ hist'.systems[1].status = "pending"
            /\ \A k \in 2..Len(hist'.systems) :
                 hist'.systems[k].status = hist.systems[k - 1].status
       /\ (hist'.lastCall.op = "save" /\ ~hist'.lastCall.stored) =>
            hist'.systems = hist.systems
       /\ hist'.lastCall.op = "process" =>
            /\ Len(hist'.systems) = Len(hist.systems)
            /\ \A k \in 1..Len(hist.systems) :
                 /\ hist.systems[k].status = "completed"
                      => hist'.systems[k].status = "completed"
                 /\ hist'.systems[k].status # hist.systems[k].status
                      => MayComplete(hist.systems[k], hist.now, hist'.lastCall)
                 /\ ~MayComplete(hist.systems[k], hist.now, hist'.lastCall)
                      => hist'.systems[k] = hist.systems[k]]_vars

\* the list is ordered newest first: timestamps never increase along it
NewestFirst(systems) ==
  \A i \in 1..(Len(systems) - 1) : systems[i].timestamp >= systems[i + 1].timestamp

\* the history has been written by the manager only: no MockDataGenerator call
\* has been made
ManagerOnly == hist.mocks = 0 /\ hist'.mocks = 0

\* C30 as stated: after any sequence of saveGeneratedSystem calls the stored
\* history holds at most 1000 systems, ordered newest first; when a save would
\* exceed 1000 the oldest systems are the ones dropped and the newly saved
\* system is always retained at the front.
C30_HistoryCappedNewestFirst ==
  [][(hist # None /\ hist'.lastCall.op = "save") =>
       /\ Len(hist'.systems) <= 1000
       /\ NewestFirst(hist'.systems)
       /\ Len(hist'.systems) >= 1
       /\ hist'.systems[1].id = hist'.lastCall.id
       /\ \A i \in 2..Len(hist'.systems) : hist'.systems[i] = hist.systems[i - 1]]_vars

\* C30, amended: a history written only by SystemHistoryManager holds at most
\* 1000 systems, ordered newest first; a saveGeneratedSystem call whose write to
\* localStorage succeeds puts the new system at the front, keeps the systems
\* stored before in their order behind it and drops only those beyond position
\* 1000; a call whose write fails returns the new id and leaves the stored
\* history as it was, without the new system.
C30_SavedAtFrontWhenWritten ==
  [][hist # None =>
       /\ ManagerOnly =>
            /\ Len(hist.systems) <= 1000 /\ Len(hist'.systems) <= 1000
            /\ NewestFirst(hist.systems) /\ NewestFirst(hist'.systems)
       /\ (hist'.lastCall.op = "save" /\ hist'.lastCall.stored) =>
            /\ Len(hist'.systems) = IF Len(hist.systems) < 1000
                                      THEN Len(hist.systems) + 1 ELSE 1000
            /\ hist'.systems[1].id = hist'.lastCall.id
            /\ hist'.systems[1].id \notin IdsOf(hist.systems)
            /\ \A i \in 2..Len(hist'.systems) : hist'.systems[i] = hist.systems[i - 1]
       /\ (hist'.lastCall.op = "save" /\ ~hist'.lastCall.stored) =>
            /\ hist'.systems = hist.systems
            /\ hist'.lastCall.id \notin IdsOf(hist'.systems)]_vars

\* a save into a full history: the new system is at the front and the oldest
\* stored system is gone
C30_Witness ==
  /\ hist # None /\ hist.mocks = 0
  /\ hist.lastCall.op = "save" /\ hist.lastCall.stored /\ hist.saves = 2
  /\ Len(hist.systems) = 1000
  /\ hist.systems[1].id = uuid(2)
  /\ hist.systems[2].id = uuid(1)
  /\ hist.systems[1000].id = "stored-998"

=============================================================================
